---- MODULE Spec2Model ----
(***************************************************************************)
(* A model of the multi-model authorization server: the ACL, RBAC, ABAC    *)
(* and ReBAC engines with the stores behind them.  Each engine has its own *)
(* specification (SpecACL, SpecRBAC, ...) over the shared variables; the   *)
(* variables of the other engines stay at their initial values there.      *)
(*                                                                         *)
(* lastCall records the operation that ran last, with its arguments and    *)
(* what it returned, so that a property of "the value a call returns" is a *)
(* state predicate on the state right after the call.                      *)
(***************************************************************************)
EXTENDS Integers, Sequences, FiniteSets, TLC

VARIABLES
    aclRules,         \* rows of the acl_rules table, in insertion order
    rbacRules,        \* rows of the rbac_rules table ("p" and "g" rows)
    policyStore,      \* ABAC policy repository: policy id -> stored policy
    policies,         \* ABACHandlerImpl.policies: the in-memory cache, id -> policy
    userAttributes,   \* user_attributes table: user id -> (attribute -> value)
    objectAttributes, \* object_attributes table: object id -> (attribute -> value)
    relStore,         \* rows of the relationship_records table, in insertion order
    relationships,    \* ReBACEnforcerImpl.relationships: key -> list of edges
    lastCall,         \* the last operation: [op, ..arguments.., ..results..]
    calls,            \* the calls in progress, one per caller: caller -> [pc, ..locals..]
    mu,               \* ReBACEnforcerImpl.mu, the engine's sync.RWMutex
    enforcers         \* the models whose enforcer AuthorizationServiceImpl holds (not nil)

vars == <<aclRules, rbacRules, policyStore, policies, userAttributes,
          objectAttributes, relStore, relationships, lastCall, calls, mu, enforcers>>

aclVars == <<aclRules>>
rbacVars == <<rbacRules>>
abacVars == <<policyStore, policies, userAttributes, objectAttributes>>
rebacVars == <<relStore, relationships>>
concVars == <<calls, mu, enforcers>>

\* A Go map is a function on the keys it holds; the empty map:
\* The values of domain.AccessControlModel.
Models == {"acl", "rbac", "abac", "rebac"}

EmptyMap == <<>>

NoCall == [op |-> "none"]

\* The callers of the specifications with calls that interleave, and a caller
\* with no call in progress.  The sequential specifications run every call as
\* one step and leave calls and mu alone.
Callers == {"c1", "c2"}
Idle == [pc |-> "idle"]

\* A sync.RWMutex nobody holds or waits for: the number of read locks held and
\* the callers that hold or wait for the write lock.
MuFree == [readers |-> 0, writer |-> "", pending |-> {}]

Range(seq) == {seq[i] : i \in 1..Len(seq)}

(***************************************************************************)
(* Bounds of the model.                                                    *)
(***************************************************************************)
MaxAclRules == 3
MaxRbacRules == 3
MaxRows == 2

(***************************************************************************)
(* ACL engine.  The engine holds no cache: every call goes to the          *)
(* repository, whose table is aclRules.  The database is taken to be       *)
(* available (its calls return no transport error).                       *)
(***************************************************************************)
AclSubjects == {"alice", "bob"}
AclObjects == {"doc1", "doc2"}
AclActions == {"read", "write"}

\* ACLRule{PType: "p", V0: subject, V1: object, V2: action}
ACLRule(subject, object, action) ==
    [ptype |-> "p", v0 |-> subject, v1 |-> object, v2 |-> action]

\* GetPolicy: the "p" rows, each as the slice []string{V0, V1, V2}.
ACLGetPolicy(rules) ==
    [i \in 1..Len(SelectSeq(rules, LAMBDA r : r.ptype = "p")) |->
        LET r == SelectSeq(rules, LAMBDA x : x.ptype = "p")[i]
        IN  <<r.v0, r.v1, r.v2>>]

\* Mutant of ACLEnforce: the action column is not compared.
ACLEnforceIgnoringAction(rules, subject, object, action) ==
    \E i \in 1..Len(ACLGetPolicy(rules)) :
        LET p == ACLGetPolicy(rules)[i]
        IN  Len(p) = 3 /\ p[1] = subject /\ p[2] = object

\* Enforce: the loop over the policies returns true at the first row that
\* equals the request in all three columns, and false after the last row.
ACLEnforce(rules, subject, object, action) ==
    \E i \in 1..Len(ACLGetPolicy(rules)) :
        LET p == ACLGetPolicy(rules)[i]
        IN  Len(p) = 3 /\ p[1] = subject /\ p[2] = object /\ p[3] = action

\* AddPolicy of the repository: look the row up, create it when absent.
ACLRepoAddPolicy(rules, subject, object, action) ==
    IF \E i \in 1..Len(rules) : rules[i] = ACLRule(subject, object, action)
    THEN [rules |-> rules, changed |-> FALSE]
    ELSE [rules |-> Append(rules, ACLRule(subject, object, action)), changed |-> TRUE]

\* RemovePolicy of the repository: delete every matching row, report
\* RowsAffected > 0.
ACLRepoRemovePolicy(rules, subject, object, action) ==
    [rules   |-> SelectSeq(rules, LAMBDA r : r # ACLRule(subject, object, action)),
     changed |-> \E i \in 1..Len(rules) : rules[i] = ACLRule(subject, object, action)]

ACLAddPolicy(s, o, a) ==
    /\ Len(aclRules) < MaxAclRules
    /\ aclRules' = ACLRepoAddPolicy(aclRules, s, o, a).rules
    /\ lastCall' = [op |-> "ACLAddPolicy", subject |-> s, object |-> o, action |-> a,
                    ok |-> ACLRepoAddPolicy(aclRules, s, o, a).changed]
    /\ UNCHANGED <<rbacVars, abacVars, rebacVars, concVars>>

ACLRemovePolicy(s, o, a) ==
    /\ aclRules' = ACLRepoRemovePolicy(aclRules, s, o, a).rules
    /\ lastCall' = [op |-> "ACLRemovePolicy", subject |-> s, object |-> o, action |-> a,
                    ok |-> ACLRepoRemovePolicy(aclRules, s, o, a).changed]
    /\ UNCHANGED <<rbacVars, abacVars, rebacVars, concVars>>

ACLEnforceCall(s, o, a) ==
    /\ lastCall' = [op |-> "ACLEnforce", subject |-> s, object |-> o, action |-> a,
                    allowed |-> ACLEnforce(aclRules, s, o, a)]
    /\ UNCHANGED <<aclVars, rbacVars, abacVars, rebacVars, concVars>>

\* The state before any engine has been used: empty tables, empty caches.
InitEmpty ==
    /\ aclRules = <<>>
    /\ rbacRules = <<>>
    /\ policyStore = EmptyMap
    /\ policies = EmptyMap
    /\ userAttributes = EmptyMap
    /\ objectAttributes = EmptyMap
    /\ relStore = <<>>
    /\ relationships = EmptyMap
    /\ lastCall = NoCall
    /\ calls = [c \in Callers |-> Idle]
    /\ mu = MuFree
    /\ enforcers = Models

InitACL == InitEmpty

NextACL ==
    \E s \in AclSubjects, o \in AclObjects, a \in AclActions :
        \/ ACLAddPolicy(s, o, a)
        \/ ACLRemovePolicy(s, o, a)
        \/ ACLEnforceCall(s, o, a)

SpecACL == InitACL /\ [][NextACL]_vars

\* The ACL policy set: the triples stored in the table.
AclPolicySet == {<<r.v0, r.v1, r.v2>> : r \in {x \in Range(aclRules) : x.ptype = "p"}}

\* C1: right after ACL Enforce(s, o, a), whatever AddPolicy and RemovePolicy
\* calls came before, the answer is true exactly when the triple (s, o, a) is
\* in the policy set; a request that differs from every stored triple in a
\* subject, object or action is denied.
C1_AclExactMatch ==
    lastCall.op = "ACLEnforce" =>
        /\ lastCall.allowed =
              (<<lastCall.subject, lastCall.object, lastCall.action>> \in AclPolicySet)
        /\ (\A t \in AclPolicySet :
                \/ t[1] # lastCall.subject
                \/ t[2] # lastCall.object
                \/ t[3] # lastCall.action) => ~lastCall.allowed

\* C1 witness: a request denied although the table holds the same subject and
\* object with another action, after a policy was added and one removed.
C1_Witness ==
    /\ lastCall.op = "ACLEnforce"
    /\ ~lastCall.allowed
    /\ \E t \in AclPolicySet :
          /\ t[1] = lastCall.subject
          /\ t[2] = lastCall.object
          /\ t[3] # lastCall.action
    /\ Len(aclRules) = 2


(***************************************************************************)
(* RBAC engine.  Like the ACL engine it keeps no cache; policies are the   *)
(* "p" rows and role assignments the "g" rows of rbacRules.  Users and     *)
(* roles are both plain strings, so a role name can itself be given roles. *)
(***************************************************************************)
RbacPrincipals == {"alice", "r1", "r2"}
RbacObjects == {"data"}
RbacActions == {"read", "write"}

\* RBACRule{PType: "p", V0: subject, V1: object, V2: action}
RBACPolicyRule(subject, object, action) ==
    [ptype |-> "p", v0 |-> subject, v1 |-> object, v2 |-> action]

\* RBACRule{PType: "g", V0: user, V1: role}; the unset V2 is the empty string.
RBACRoleRule(user, role) ==
    [ptype |-> "g", v0 |-> user, v1 |-> role, v2 |-> ""]

\* GetPolicy: the "p" rows, each as []string{V0, V1, V2}.
RBACGetPolicy(rules) ==
    [i \in 1..Len(SelectSeq(rules, LAMBDA r : r.ptype = "p")) |->
        LET r == SelectSeq(rules, LAMBDA x : x.ptype = "p")[i]
        IN  <<r.v0, r.v1, r.v2>>]

\* GetRolesForUser: V1 of the "g" rows whose V0 is the user.
RBACGetRolesForUser(rules, user) ==
    [i \in 1..Len(SelectSeq(rules, LAMBDA r : r.ptype = "g" /\ r.v0 = user)) |->
        SelectSeq(rules, LAMBDA r : r.ptype = "g" /\ r.v0 = user)[i].v1]

\* Whether some row of the policy list is the triple (subject, object, action).
RBACPolicyMatches(policyList, subject, object, action) ==
    \E i \in 1..Len(policyList) :
        /\ Len(policyList[i]) = 3
        /\ policyList[i][1] = subject
        /\ policyList[i][2] = object
        /\ policyList[i][3] = action

\* The principals reachable from user by one or more role assignments.
RECURSIVE RolesWithin(_, _, _)
RolesWithin(rules, users, n) ==
    IF n = 0 THEN users
    ELSE RolesWithin(rules,
             users \cup UNION {Range(RBACGetRolesForUser(rules, u)) : u \in users},
             n - 1)

\* Mutant of RBACEnforce: roles are resolved through the roles' own roles.
RBACEnforceTransitive(rules, subject, object, action) ==
    \E r \in RolesWithin(rules, {subject}, Len(rules)) :
        RBACPolicyMatches(RBACGetPolicy(rules), r, object, action)

\* Enforce: first the direct policies of the subject, then, for each role
\* GetRolesForUser returns, the policies of that role.
RBACEnforce(rules, subject, object, action) ==
    \/ RBACPolicyMatches(RBACGetPolicy(rules), subject, object, action)
    \/ \E k \in 1..Len(RBACGetRolesForUser(rules, subject)) :
          RBACPolicyMatches(RBACGetPolicy(rules),
                            RBACGetRolesForUser(rules, subject)[k], object, action)

\* AddPolicy / AddRoleForUser of the repository: create the row when absent.
RBACRepoAdd(rules, row) ==
    IF \E i \in 1..Len(rules) : rules[i] = row
    THEN [rules |-> rules, changed |-> FALSE]
    ELSE [rules |-> Append(rules, row), changed |-> TRUE]

\* RemovePolicy / RemoveRoleForUser of the repository: delete the matching rows.
RBACRepoRemove(rules, row) ==
    [rules   |-> SelectSeq(rules, LAMBDA r : r # row),
     changed |-> \E i \in 1..Len(rules) : rules[i] = row]

RBACAddPolicy(s, o, a) ==
    /\ Len(rbacRules) < MaxRbacRules
    /\ rbacRules' = RBACRepoAdd(rbacRules, RBACPolicyRule(s, o, a)).rules
    /\ lastCall' = [op |-> "RBACAddPolicy", subject |-> s, object |-> o, action |-> a,
                    ok |-> RBACRepoAdd(rbacRules, RBACPolicyRule(s, o, a)).changed]
    /\ UNCHANGED <<aclVars, abacVars, rebacVars, concVars>>

RBACRemovePolicy(s, o, a) ==
    /\ rbacRules' = RBACRepoRemove(rbacRules, RBACPolicyRule(s, o, a)).rules
    /\ lastCall' = [op |-> "RBACRemovePolicy", subject |-> s, object |-> o, action |-> a,
                    ok |-> RBACRepoRemove(rbacRules, RBACPolicyRule(s, o, a)).changed]
    /\ UNCHANGED <<aclVars, abacVars, rebacVars, concVars>>

RBACAddRoleForUser(u, r) ==
    /\ Len(rbacRules) < MaxRbacRules
    /\ rbacRules' = RBACRepoAdd(rbacRules, RBACRoleRule(u, r)).rules
    /\ lastCall' = [op |-> "RBACAddRoleForUser", user |-> u, role |-> r,
                    ok |-> RBACRepoAdd(rbacRules, RBACRoleRule(u, r)).changed]
    /\ UNCHANGED <<aclVars, abacVars, rebacVars, concVars>>

RBACRemoveRoleForUser(u, r) ==
    /\ rbacRules' = RBACRepoRemove(rbacRules, RBACRoleRule(u, r)).rules
    /\ lastCall' = [op |-> "RBACRemoveRoleForUser", user |-> u, role |-> r,
                    ok |-> RBACRepoRemove(rbacRules, RBACRoleRule(u, r)).changed]
    /\ UNCHANGED <<aclVars, abacVars, rebacVars, concVars>>

RBACEnforceCall(s, o, a) ==
    /\ lastCall' = [op |-> "RBACEnforce", subject |-> s, object |-> o, action |-> a,
                    allowed |-> RBACEnforce(rbacRules, s, o, a)]
    /\ UNCHANGED <<aclVars, rbacVars, abacVars, rebacVars, concVars>>

InitRBAC == InitEmpty

NextRBAC ==
    \/ \E s \in RbacPrincipals, o \in RbacObjects, a \in RbacActions :
          \/ RBACAddPolicy(s, o, a)
          \/ RBACRemovePolicy(s, o, a)
          \/ RBACEnforceCall(s, o, a)
    \/ \E u \in RbacPrincipals, r \in RbacPrincipals :
          \/ RBACAddRoleForUser(u, r)
          \/ RBACRemoveRoleForUser(u, r)

SpecRBAC == InitRBAC /\ [][NextRBAC]_vars

\* P: membership in the RBAC policy set.
RbacP(s, o, a) ==
    \E r \in Range(rbacRules) : r.ptype = "p" /\ r.v0 = s /\ r.v1 = o /\ r.v2 = a

\* Roles(u): the roles directly assigned to u.
RbacRoles(u) == {r.v1 : r \in {x \in Range(rbacRules) : x.ptype = "g" /\ x.v0 = u}}

\* C2: right after RBAC Enforce(u, o, a) the answer is
\* P(u, o, a) \/ \E r \in Roles(u) : P(r, o, a); and roles are flat: when every
\* policy for (o, a) belongs to principals that are neither u nor a role
\* directly assigned to u (for example assignments (u, r1), (r1, r2) and the
\* only policy (r2, o, a)), the answer is false.
C2_RbacRoleDisjunction ==
    lastCall.op = "RBACEnforce" =>
        LET u == lastCall.subject
            o == lastCall.object
            a == lastCall.action
        IN  /\ lastCall.allowed = (RbacP(u, o, a) \/ \E r \in RbacRoles(u) : RbacP(r, o, a))
            /\ (\A r \in Range(rbacRules) :
                    (r.ptype = "p" /\ r.v1 = o /\ r.v2 = a) =>
                        (r.v0 # u /\ r.v0 \notin RbacRoles(u)))
               => ~lastCall.allowed

\* C2 witness: assignments (alice, r1) and (r1, r2), the only policy
\* (r2, data, write), and Enforce(alice, data, write) answered false.
C2_Witness ==
    /\ lastCall = [op |-> "RBACEnforce", subject |-> "alice", object |-> "data",
                   action |-> "write", allowed |-> FALSE]
    /\ Range(rbacRules) = {RBACRoleRule("alice", "r1"), RBACRoleRule("r1", "r2"),
                           RBACPolicyRule("r2", "data", "write")}


(***************************************************************************)
(* ABAC engine (ABACHandlerImpl).  The policies live in the cache          *)
(* `policies`, written through to the policy repository; attributes are    *)
(* read from the attribute repository on every Enforce.                    *)
(*                                                                         *)
(* A policy is [id, name, effect, priority, conditions]; the description   *)
(* and the timestamps take no part in any decision and are left out.  A    *)
(* condition is [type, field, operator, value, logic_op].                  *)
(***************************************************************************)
PolicyIds == {"p1", "p2"}
Priorities == {50, 100}
Effects == {"allow", "deny"}
AbacUsers == {"alice"}
AbacObjects == {"doc"}
AbacActions == {"read", "write"}

Cond(type, field, operator, value, logicOp) ==
    [type |-> type, field |-> field, operator |-> operator, value |-> value,
     logic_op |-> logicOp]

\* The conditions the policies of the model are built from: one on a stored
\* user attribute, one on an environment attribute the request supplies, one
\* on the requested action, one on a stored object attribute.
CondUser(logicOp) == Cond("user", "dept", "eq", "eng", logicOp)
CondEnv(logicOp) == Cond("environment", "location", "eq", "office", logicOp)
CondAction(logicOp) == Cond("action", "action", "eq", "read", logicOp)
CondObject(logicOp) == Cond("object", "level", "ne", "secret", logicOp)

ConditionLists ==
    { <<>>,
      <<CondObject("or"), CondUser("")>>,
      <<CondUser("or"), CondEnv("and"), CondAction("")>>,
      <<CondUser("and"), CondEnv("or"), CondAction("or")>> }

\* The policies handed to AddPolicy and UpdatePolicy: every valid combination,
\* and one that Validate rejects for its effect.
ValidPolicies ==
    [id : PolicyIds, name : {"policy"}, effect : Effects,
     priority : Priorities, conditions : ConditionLists]

PolicyInputs ==
    ValidPolicies \cup
    {[id |-> "p1", name |-> "policy", effect |-> "audit", priority |-> 100,
      conditions |-> <<CondUser("")>>]}

\* What the clock gives Enforce, and the attribute maps a request may carry.
Clocks == {[time |-> "9", date |-> "2025-01-06", day |-> "Monday"]}
RequestAttributes == {EmptyMap, [location |-> "office"]}

UserAttributeInputs == {[dept |-> "eng"]}
ObjectAttributeInputs == {[level |-> "secret"]}

\* m[k] of a Go map: the zero value "" for a key the map does not hold.
Lookup(m, k) == IF k \in DOMAIN m THEN m[k] ELSE ""

\* for k, v := range src { dst[k] = v }
Overlay(dst, src) ==
    [k \in DOMAIN dst \cup DOMAIN src |-> IF k \in DOMAIN src THEN src[k] ELSE dst[k]]

\* What Validate finds wrong with a condition ("": nothing).
ConditionError(cond) ==
    IF cond.type = "" \/ cond.field = "" \/ cond.operator = "" \/ cond.value = ""
    THEN "type, field, operator, and value cannot be empty"
    ELSE IF cond.logic_op # "" /\ cond.logic_op # "and" /\ cond.logic_op # "or"
    THEN "logic_op must be 'and' or 'or' or empty"
    ELSE ""

\* Validate that looks at the policy's own fields only, not at its
\* conditions.
ValidateWithoutConditions(policy) ==
    IF policy.id = "" THEN "policy ID cannot be empty"
    ELSE IF policy.name = "" THEN "policy name cannot be empty"
    ELSE IF policy.effect # "allow" /\ policy.effect # "deny"
         THEN "policy effect must be 'allow' or 'deny'"
    ELSE "nil"

\* ABACPolicy.Validate: "nil" or the error; for the conditions, the error of
\* the first condition that has one.
Validate(policy) ==
    IF policy.id = "" THEN "policy ID cannot be empty"
    ELSE IF policy.name = "" THEN "policy name cannot be empty"
    ELSE IF policy.effect # "allow" /\ policy.effect # "deny"
         THEN "policy effect must be 'allow' or 'deny'"
    ELSE LET wrong == {i \in 1..Len(policy.conditions) :
                          ConditionError(policy.conditions[i]) # ""}
         IN  IF wrong = {} THEN "nil"
             ELSE ConditionError(policy.conditions[CHOOSE i \in wrong :
                                                      \A j \in wrong : i <= j])

\* The evaluation context with the request attribute "hour" applied before
\* the request attributes are laid over the clock's values.
EvaluationContextHourFirst(userAttrs, objectAttrs, clock, reqAttrs, subject, object, action) ==
    [UserAttributes        |-> userAttrs,
     ObjectAttributes      |-> objectAttrs,
     EnvironmentAttributes |->
        IF "hour" \in DOMAIN reqAttrs
        THEN Overlay(Overlay(clock, [time |-> reqAttrs["hour"]]), reqAttrs)
        ELSE Overlay(clock, reqAttrs),
     ActionAttributes      |-> EmptyMap,
     Subject               |-> subject,
     Object                |-> object,
     Action                |-> action]

\* The evaluation context Enforce builds once both attribute loads succeeded.
\* The environment is the clock's time, date and day, overlaid by the request
\* attributes; a request attribute "hour" also replaces "time".
EvaluationContext(userAttrs, objectAttrs, clock, reqAttrs, subject, object, action) ==
    [UserAttributes        |-> userAttrs,
     ObjectAttributes      |-> objectAttrs,
     EnvironmentAttributes |->
        IF "hour" \in DOMAIN reqAttrs
        THEN Overlay(Overlay(clock, reqAttrs), [time |-> reqAttrs["hour"]])
        ELSE Overlay(clock, reqAttrs),
     ActionAttributes      |-> EmptyMap,
     Subject               |-> subject,
     Object                |-> object,
     Action                |-> action]

\* evaluateOperator, for the operators the conditions of the model use (eq,
\* ne); an operator outside the engine's list evaluates to false.
evaluateOperator(actual, operator, expected) ==
    CASE operator = "eq" -> actual = expected
      [] operator = "ne" -> actual # expected
      [] OTHER -> FALSE

\* evaluateCondition: resolve the actual value by the condition's type, then
\* apply the operator; an unknown type is false.
evaluateCondition(condition, ctx) ==
    CASE condition.type = "user" ->
            evaluateOperator(Lookup(ctx.UserAttributes, condition.field),
                             condition.operator, condition.value)
      [] condition.type = "object" ->
            evaluateOperator(Lookup(ctx.ObjectAttributes, condition.field),
                             condition.operator, condition.value)
      [] condition.type = "environment" ->
            evaluateOperator(Lookup(ctx.EnvironmentAttributes, condition.field),
                             condition.operator, condition.value)
      [] condition.type = "action" ->
            evaluateOperator(IF condition.field = "action" THEN ctx.Action
                             ELSE Lookup(ctx.ActionAttributes, condition.field),
                             condition.operator, condition.value)
      [] condition.type = "subject" ->
            evaluateOperator(IF condition.field = "subject" THEN ctx.Subject ELSE "",
                             condition.operator, condition.value)
      [] condition.type = "resource" ->
            evaluateOperator(IF condition.field = "object" THEN ctx.Object ELSE "",
                             condition.operator, condition.value)
      [] OTHER -> FALSE

\* The loop of evaluatePolicy with an operator that falls back to "and" after
\* a condition whose logic_op is empty.
RECURSIVE FoldConditionsResetting(_, _, _, _, _)
FoldConditionsResetting(conds, ctx, i, result, currentLogicOp) ==
    IF i > Len(conds) THEN result
    ELSE LET conditionResult == evaluateCondition(conds[i], ctx)
         IN  FoldConditionsResetting(conds, ctx, i + 1,
                 IF i = 1 THEN conditionResult
                 ELSE IF currentLogicOp = "and" THEN result /\ conditionResult
                 ELSE result \/ conditionResult,
                 IF conds[i].logic_op # "" THEN conds[i].logic_op ELSE "and")

\* The loop of evaluatePolicy from condition i on: result and currentLogicOp
\* are the loop's two variables.
RECURSIVE FoldConditions(_, _, _, _, _)
FoldConditions(conds, ctx, i, result, currentLogicOp) ==
    IF i > Len(conds) THEN result
    ELSE LET conditionResult == evaluateCondition(conds[i], ctx)
         IN  FoldConditions(conds, ctx, i + 1,
                 IF i = 1 THEN conditionResult
                 ELSE IF currentLogicOp = "and" THEN result /\ conditionResult
                 ELSE result \/ conditionResult,
                 IF conds[i].logic_op # "" THEN conds[i].logic_op ELSE currentLogicOp)

\* Mutant of evaluatePolicy: the guard on an empty condition list is missing,
\* so the loop's initial result (true) is returned.
evaluatePolicyWithoutEmptyGuard(policy, ctx) ==
    FoldConditions(policy.conditions, ctx, 1, TRUE, "and")

\* The conditions from i on, with "and" binding tighter than "or": the value
\* of the and-group that starts at i, and the index after it.
RECURSIVE AndGroup(_, _, _)
AndGroup(conds, ctx, i) ==
    IF i = Len(conds) \/ conds[i].logic_op = "or"
    THEN [value |-> evaluateCondition(conds[i], ctx), next |-> i + 1]
    ELSE [value |-> evaluateCondition(conds[i], ctx) /\ AndGroup(conds, ctx, i + 1).value,
          next  |-> AndGroup(conds, ctx, i + 1).next]

RECURSIVE OrOfGroups(_, _, _)
OrOfGroups(conds, ctx, i) ==
    IF i > Len(conds) THEN FALSE
    ELSE AndGroup(conds, ctx, i).value \/ OrOfGroups(conds, ctx, AndGroup(conds, ctx, i).next)

\* Mutant of evaluatePolicy: conditions combined with operator precedence.
evaluatePolicyWithPrecedence(policy, ctx) ==
    IF Len(policy.conditions) = 0 THEN FALSE
    ELSE OrOfGroups(policy.conditions, ctx, 1)

\* evaluatePolicy: no conditions, no match; otherwise the left-to-right loop.
evaluatePolicy(policy, ctx) ==
    IF Len(policy.conditions) = 0 THEN FALSE
    ELSE FoldConditions(policy.conditions, ctx, 1, TRUE, "and")

\* All orders of the ids in S.
OrdersOf(S) ==
    {f \in [1..Cardinality(S) -> S] : \A i, j \in 1..Cardinality(S) : f[i] = f[j] => i = j}

\* Mutant of SortedOrders: the comparison is the wrong way round.
SortedOrdersAscending(cache) ==
    {f \in OrdersOf(DOMAIN cache) :
        \A i \in 1..(Len(f) - 1) : cache[f[i]].priority <= cache[f[i + 1]].priority}

\* The orders sortedPolicies can have after sort.Slice: the cache is a map,
\* ranged over in no fixed order, and sort.Slice is not stable, so policies of
\* equal priority can come out in either order.
SortedOrders(cache) ==
    {f \in OrdersOf(DOMAIN cache) :
        \A i \in 1..(Len(f) - 1) : cache[f[i]].priority >= cache[f[i + 1]].priority}

\* Mutant of DecideInOrder: the fall-through after the loop allows.
RECURSIVE DecideInOrderDefaultAllow(_, _, _, _)
DecideInOrderDefaultAllow(cache, order, i, ctx) ==
    IF i > Len(order) THEN TRUE
    ELSE IF evaluatePolicy(cache[order[i]], ctx) /\ cache[order[i]].effect = "allow" THEN TRUE
    ELSE IF evaluatePolicy(cache[order[i]], ctx) /\ cache[order[i]].effect = "deny" THEN FALSE
    ELSE DecideInOrderDefaultAllow(cache, order, i + 1, ctx)

\* The decision loop of Enforce over sortedPolicies from position i: the first
\* policy that matches decides by its effect; after the last, deny.
RECURSIVE DecideInOrder(_, _, _, _)
DecideInOrder(cache, order, i, ctx) ==
    IF i > Len(order) THEN FALSE
    ELSE IF evaluatePolicy(cache[order[i]], ctx) /\ cache[order[i]].effect = "allow" THEN TRUE
    ELSE IF evaluatePolicy(cache[order[i]], ctx) /\ cache[order[i]].effect = "deny" THEN FALSE
    ELSE DecideInOrder(cache, order, i + 1, ctx)

\* GetUserAttributes / GetObjectAttributes of the repository: the map of the
\* rows of that id, empty when there are none.
GetAttributes(table, id) == IF id \in DOMAIN table THEN table[id] ELSE EmptyMap

\* Enforce that takes a failed attribute load for an empty attribute map.
ABACEnforceResultsSilent(cache, uTable, oTable, subject, object, action, reqAttrs, clock, fail) ==
    {[allowed |-> DecideInOrder(cache, order, 1,
                     EvaluationContext(IF fail = "user" THEN EmptyMap
                                       ELSE GetAttributes(uTable, subject),
                                       IF fail = "object" THEN EmptyMap
                                       ELSE GetAttributes(oTable, object),
                                       clock, reqAttrs, subject, object, action)),
      err |-> "nil"] : order \in SortedOrders(cache)}

\* What Enforce can return: [allowed, err].  fail names the attribute load
\* that fails ("none", "user", "object").
ABACEnforceResults(cache, uTable, oTable, subject, object, action, reqAttrs, clock, fail) ==
    IF fail = "user"
    THEN {[allowed |-> FALSE, err |-> "failed to get user attributes"]}
    ELSE IF fail = "object"
    THEN {[allowed |-> FALSE, err |-> "failed to get object attributes"]}
    ELSE {[allowed |-> DecideInOrder(cache, order, 1,
                          EvaluationContext(GetAttributes(uTable, subject),
                                            GetAttributes(oTable, object),
                                            clock, reqAttrs, subject, object, action)),
           err |-> "nil"] : order \in SortedOrders(cache)}

\* m with key k bound to v; m without key k.
MapPut(m, k, v) == [x \in DOMAIN m \cup {k} |-> IF x = k THEN v ELSE m[x]]
MapDelete(m, k) == [x \in DOMAIN m \ {k} |-> m[x]]

\* AddPolicy without the lookup of the id in the cache.
ABACAddPolicyOverwriting(policy, repoOk) ==
    /\ LET err == IF Validate(policy) # "nil" THEN "invalid ABAC policy"
                  ELSE IF ~repoOk THEN "failed to add policy to repository"
                  ELSE "nil"
       IN  /\ policyStore' = IF err = "nil" THEN MapPut(policyStore, policy.id, policy)
                             ELSE policyStore
           /\ policies' = IF err = "nil" THEN MapPut(policies, policy.id, policy)
                          ELSE policies
           /\ lastCall' = [op |-> "ABACAddPolicy", id |-> policy.id,
                           valid |-> Validate(policy) = "nil", err |-> err]
    /\ UNCHANGED <<aclVars, rbacVars, rebacVars, userAttributes, objectAttributes, concVars>>

\* AddPolicy.  repoOk: whether the repository's Create succeeds (it also
\* fails on a primary key the table already holds).
ABACAddPolicy(policy, repoOk) ==
    /\ LET err == IF Validate(policy) # "nil" THEN "invalid ABAC policy"
                  ELSE IF policy.id \in DOMAIN policies THEN "already exists"
                  ELSE IF ~repoOk \/ policy.id \in DOMAIN policyStore
                       THEN "failed to add policy to repository"
                  ELSE "nil"
       IN  /\ policyStore' = IF err = "nil" THEN MapPut(policyStore, policy.id, policy)
                             ELSE policyStore
           /\ policies' = IF err = "nil" THEN MapPut(policies, policy.id, policy)
                          ELSE policies
           /\ lastCall' = [op |-> "ABACAddPolicy", id |-> policy.id,
                           valid |-> Validate(policy) = "nil", err |-> err]
    /\ UNCHANGED <<aclVars, rbacVars, rebacVars, userAttributes, objectAttributes, concVars>>

\* Where a repository call fails: step names the statement of the repository
\* method whose database call returns an error, n the condition for the
\* Create loop of UpdatePolicy.
FailAt(step, n) == [step |-> step, n |-> n]
NoFailure == FailAt("none", 0)

\* UpdatePolicy of the repository: Save of the policy row (with it its
\* conditions are inserted next to the ones the table holds), Delete of every
\* condition of the policy, Create of each new condition; no transaction
\* spans the three, so a failure keeps what the earlier statements wrote.
\* The result is the table and whether the method returned nil.
RepoUpdatePolicy(store, policy, failAt) ==
    LET old == IF policy.id \in DOMAIN store THEN store[policy.id].conditions ELSE <<>>
        row(conds) == [policy EXCEPT !.conditions = conds]
    IN  IF failAt.step = "save" THEN [store |-> store, ok |-> FALSE]
        ELSE IF failAt.step = "delete"
        THEN [store |-> MapPut(store, policy.id, row(old \o policy.conditions)),
              ok |-> FALSE]
        ELSE IF failAt.step = "create" /\ failAt.n <= Len(policy.conditions)
        THEN [store |-> MapPut(store, policy.id,
                               row(SubSeq(policy.conditions, 1, failAt.n - 1))),
              ok |-> FALSE]
        ELSE [store |-> MapPut(store, policy.id, policy), ok |-> TRUE]

\* RemovePolicy of the repository: Delete of the policy's conditions, then
\* Delete of the policy row.
RepoRemovePolicy(store, policyID, failAt) ==
    IF failAt.step = "conditions" THEN [store |-> store, ok |-> FALSE]
    ELSE IF failAt.step = "policy"
    THEN [store |-> IF policyID \in DOMAIN store
                    THEN MapPut(store, policyID, [store[policyID] EXCEPT !.conditions = <<>>])
                    ELSE store,
          ok |-> FALSE]
    ELSE [store |-> MapDelete(store, policyID), ok |-> TRUE]

\* RemovePolicy.
ABACRemovePolicy(policyID, failAt) ==
    /\ LET repo == RepoRemovePolicy(policyStore, policyID, failAt)
           err == IF policyID \notin DOMAIN policies THEN "not found"
                  ELSE IF ~repo.ok THEN "failed to remove policy from repository"
                  ELSE "nil"
       IN  /\ policyStore' = IF policyID \in DOMAIN policies THEN repo.store
                             ELSE policyStore
           /\ policies' = IF err = "nil" THEN MapDelete(policies, policyID) ELSE policies
           /\ lastCall' = [op |-> "ABACRemovePolicy", id |-> policyID, err |-> err]
    /\ UNCHANGED <<aclVars, rbacVars, rebacVars, userAttributes, objectAttributes, concVars>>

\* UpdatePolicy.
ABACUpdatePolicy(policy, failAt) ==
    /\ LET repo == RepoUpdatePolicy(policyStore, policy, failAt)
           reached == Validate(policy) = "nil" /\ policy.id \in DOMAIN policies
           err == IF Validate(policy) # "nil" THEN "invalid ABAC policy"
                  ELSE IF policy.id \notin DOMAIN policies THEN "not found"
                  ELSE IF ~repo.ok THEN "failed to update policy in repository"
                  ELSE "nil"
       IN  /\ policyStore' = IF reached THEN repo.store ELSE policyStore
           /\ policies' = IF err = "nil" THEN MapPut(policies, policy.id, policy)
                          ELSE policies
           /\ lastCall' = [op |-> "ABACUpdatePolicy", id |-> policy.id,
                           valid |-> Validate(policy) = "nil", err |-> err]
    /\ UNCHANGED <<aclVars, rbacVars, rebacVars, userAttributes, objectAttributes, concVars>>

\* SetUserAttributes: every pair of attrs is written to the user's rows.
ABACSetUserAttributes(userID, attrs) ==
    /\ userAttributes' = MapPut(userAttributes, userID,
                                Overlay(GetAttributes(userAttributes, userID), attrs))
    /\ lastCall' = [op |-> "ABACSetUserAttributes", id |-> userID]
    /\ UNCHANGED <<aclVars, rbacVars, rebacVars, policyStore, policies, objectAttributes, concVars>>

\* RemoveUserAttribute.
ABACRemoveUserAttribute(userID, attributeKey) ==
    /\ userAttributes' = MapPut(userAttributes, userID,
                                MapDelete(GetAttributes(userAttributes, userID), attributeKey))
    /\ lastCall' = [op |-> "ABACRemoveUserAttribute", id |-> userID, key |-> attributeKey]
    /\ UNCHANGED <<aclVars, rbacVars, rebacVars, policyStore, policies, objectAttributes, concVars>>

\* SetObjectAttributes.
ABACSetObjectAttributes(objectID, attrs) ==
    /\ objectAttributes' = MapPut(objectAttributes, objectID,
                                  Overlay(GetAttributes(objectAttributes, objectID), attrs))
    /\ lastCall' = [op |-> "ABACSetObjectAttributes", id |-> objectID]
    /\ UNCHANGED <<aclVars, rbacVars, rebacVars, policyStore, policies, userAttributes, concVars>>

\* RemoveObjectAttribute.
ABACRemoveObjectAttribute(objectID, attributeKey) ==
    /\ objectAttributes' = MapPut(objectAttributes, objectID,
                                  MapDelete(GetAttributes(objectAttributes, objectID), attributeKey))
    /\ lastCall' = [op |-> "ABACRemoveObjectAttribute", id |-> objectID, key |-> attributeKey]
    /\ UNCHANGED <<aclVars, rbacVars, rebacVars, policyStore, policies, userAttributes, concVars>>

\* Enforce.
ABACEnforceCall(s, o, a, reqAttrs, clock, fail) ==
    /\ \E res \in ABACEnforceResults(policies, userAttributes, objectAttributes,
                                     s, o, a, reqAttrs, clock, fail) :
          lastCall' = [op |-> "ABACEnforce", subject |-> s, object |-> o, action |-> a,
                       reqAttrs |-> reqAttrs, clock |-> clock, fail |-> fail,
                       allowed |-> res.allowed, err |-> res.err]
    /\ UNCHANGED <<aclVars, rbacVars, abacVars, rebacVars, concVars>>

\* NewABACEnforcerImpl over empty tables: LoadPolicies leaves the cache empty.
InitABAC == InitEmpty

NextABAC ==
    \/ \E policy \in PolicyInputs :
          \/ \E repoOk \in BOOLEAN : ABACAddPolicy(policy, repoOk)
          \/ \E failAt \in {NoFailure, FailAt("save", 0)} : ABACUpdatePolicy(policy, failAt)
    \/ \E policyID \in PolicyIds, failAt \in {NoFailure, FailAt("conditions", 0)} :
          ABACRemovePolicy(policyID, failAt)
    \/ \E u \in AbacUsers :
          \/ \E attrs \in UserAttributeInputs : ABACSetUserAttributes(u, attrs)
          \/ \E k \in {"dept"} : ABACRemoveUserAttribute(u, k)
    \/ \E o \in AbacObjects :
          \/ \E attrs \in ObjectAttributeInputs : ABACSetObjectAttributes(o, attrs)
          \/ \E k \in {"level"} : ABACRemoveObjectAttribute(o, k)
    \/ \E s \in AbacUsers, o \in AbacObjects, a \in AbacActions,
          reqAttrs \in RequestAttributes, clock \in Clocks,
          fail \in {"none", "user", "object"} :
          ABACEnforceCall(s, o, a, reqAttrs, clock, fail)

SpecABAC == InitABAC /\ [][NextABAC]_vars


(***************************************************************************)
(* ABAC claims.  Enforce leaves the state alone, so in a state whose       *)
(* lastCall is an Enforce the tables are those the call read.              *)
(***************************************************************************)
AbacEnforced == lastCall.op = "ABACEnforce"

\* The context of the Enforce in lastCall.
AbacLastContext ==
    EvaluationContext(GetAttributes(userAttributes, lastCall.subject),
                      GetAttributes(objectAttributes, lastCall.object),
                      lastCall.clock, lastCall.reqAttrs,
                      lastCall.subject, lastCall.object, lastCall.action)

\* The cached policies whose conditions match ctx, and those of them that no
\* matching policy outranks.
MatchingPolicies(ctx) == {id \in DOMAIN policies : evaluatePolicy(policies[id], ctx)}
TopMatchingPolicies(ctx) ==
    {id \in MatchingPolicies(ctx) :
        \A other \in MatchingPolicies(ctx) :
            policies[other].priority <= policies[id].priority}

\* C3 as stated: if a policy of priority P matches and none of greater
\* priority matches, Enforce returns true when that policy allows and false
\* when it denies.  (Read for the calls that return no error.)
C3_Original ==
    (AbacEnforced /\ lastCall.err = "nil") =>
        \A id \in TopMatchingPolicies(AbacLastContext) :
            lastCall.allowed = (policies[id].effect = "allow")

\* C3 (amended): for an Enforce that returns no error, if a policy of priority
\* P matches, none of greater priority matches, and every matching policy of
\* priority P has the same effect, the decision is true when that effect is
\* allow and false when it is deny, whatever lower-priority policies match.
C3_HighestPriorityEffect ==
    (AbacEnforced /\ lastCall.err = "nil") =>
        \A id \in TopMatchingPolicies(AbacLastContext) :
            (\A other \in TopMatchingPolicies(AbacLastContext) :
                policies[other].effect = policies[id].effect)
            => lastCall.allowed = (policies[id].effect = "allow")

\* A deny of priority 100 and an allow of priority 50 both match: denied.
C3_Witness ==
    /\ AbacEnforced /\ lastCall.err = "nil"
    /\ MatchingPolicies(AbacLastContext) = {"p1", "p2"}
    /\ policies["p1"].priority = 100 /\ policies["p1"].effect = "deny"
    /\ policies["p2"].priority = 50 /\ policies["p2"].effect = "allow"
    /\ lastCall.allowed = FALSE

\* C4 as stated: when the policy set is empty or no policy's conditions
\* evaluate to true for the request, Enforce returns false with no error.
C4_Original ==
    (AbacEnforced /\ MatchingPolicies(AbacLastContext) = {}) =>
        (lastCall.allowed = FALSE /\ lastCall.err = "nil")

\* C4 (amended): when both attribute loads succeed and the policy set is empty
\* or no policy's conditions evaluate to true for the request, Enforce returns
\* false with no error.
C4_DefaultDeny ==
    (AbacEnforced /\ lastCall.fail = "none" /\ MatchingPolicies(AbacLastContext) = {}) =>
        (lastCall.allowed = FALSE /\ lastCall.err = "nil")

\* An allow policy with conditions is cached, it does not match the request,
\* and the request is denied without error.
C4_Witness ==
    /\ AbacEnforced /\ lastCall.fail = "none"
    /\ \E id \in DOMAIN policies :
          policies[id].effect = "allow" /\ Len(policies[id].conditions) > 0
    /\ MatchingPolicies(AbacLastContext) = {}
    /\ lastCall.allowed = FALSE /\ lastCall.err = "nil"

\* Every request Enforce can be given.
AbacRequests ==
    [subject : AbacUsers, object : AbacObjects, action : AbacActions,
     reqAttrs : RequestAttributes, clock : Clocks, fail : {"none", "user", "object"}]

\* C5: a policy with an empty condition list never matches, so a successful
\* AddPolicy of such a policy, of any priority and effect, into any policy set
\* leaves the results Enforce can give unchanged for every request.
C5_EmptyConditionsInert ==
    [][ (/\ lastCall'.op = "ABACAddPolicy" /\ lastCall'.err = "nil"
         /\ policies'[lastCall'.id].conditions = <<>>)
        => \A r \in AbacRequests :
              ABACEnforceResults(policies', userAttributes', objectAttributes',
                                 r.subject, r.object, r.action, r.reqAttrs, r.clock, r.fail)
              = ABACEnforceResults(policies, userAttributes, objectAttributes,
                                   r.subject, r.object, r.action, r.reqAttrs, r.clock, r.fail)
      ]_vars

\* An allow policy without conditions, of the top priority, was just added
\* next to a policy that has conditions.
C5_Witness ==
    /\ lastCall.op = "ABACAddPolicy" /\ lastCall.err = "nil"
    /\ policies[lastCall.id].conditions = <<>>
    /\ policies[lastCall.id].effect = "allow"
    /\ policies[lastCall.id].priority = 100
    /\ \E id \in DOMAIN policies : Len(policies[id].conditions) > 0

\* The truth values of the three conditions A (user dept eq eng), B
\* (environment location eq office) and C (action eq read) for the Enforce in
\* lastCall, read off the tables and the request.
C6_A == Lookup(GetAttributes(userAttributes, lastCall.subject), "dept") = "eng"
C6_B == Lookup(lastCall.reqAttrs, "location") = "office"
C6_C == lastCall.action = "read"

\* C6: conditions combine left to right without precedence: when the only
\* cached policies are allow policies with the conditions A (or), B (and), C,
\* Enforce allows iff (A or B) and C.
C6_LeftToRight ==
    (/\ AbacEnforced /\ lastCall.err = "nil"
     /\ DOMAIN policies # {}
     /\ \A id \in DOMAIN policies :
           /\ policies[id].effect = "allow"
           /\ policies[id].conditions = <<CondUser("or"), CondEnv("and"), CondAction("")>>)
    => lastCall.allowed = ((C6_A \/ C6_B) /\ C6_C)

\* A true, B false, C false: denied, where A or (B and C) would allow.
C6_Witness ==
    /\ AbacEnforced /\ lastCall.err = "nil"
    /\ DOMAIN policies = {"p1"}
    /\ policies["p1"].effect = "allow"
    /\ policies["p1"].conditions = <<CondUser("or"), CondEnv("and"), CondAction("")>>
    /\ C6_A /\ ~C6_B /\ ~C6_C
    /\ lastCall.allowed = FALSE


(***************************************************************************)
(* ReBAC engine (ReBACEnforcerImpl).  relStore is the relationship_records *)
(* table: a list of rows, since the table has an auto-increment key and no *)
(* unique constraint.  relationships is the in-memory graph: a map from    *)
(* the key "subject:relationship" to a list of edges, holding for every    *)
(* edge a reverse edge under "object:reverse_relationship".  Identifiers,  *)
(* keys and paths are strings, built and taken apart as the code does.     *)
(***************************************************************************)
SocialMaxDepth == 3
DefaultMaxDepth == 5

\* initializeDefaultPermissions.
permissions ==
    [owner        |-> <<"read", "write", "delete", "admin">>,
     editor       |-> <<"read", "write", "edit">>,
     viewer       |-> <<"read", "view">>,
     member       |-> <<"inherit">>,
     group_access |-> <<"read", "write">>,
     parent       |-> <<"inherit">>,
     friend       |-> <<"read_limited">>,
     manager      |-> <<"read", "write", "delete", "manage">>]

\* strings.HasPrefix, strings.Contains.
HasPrefix(s, prefix) ==
    Len(s) >= Len(prefix) /\ SubSeq(s, 1, Len(prefix)) = prefix

Contains(s, substr) ==
    \E i \in 1..(Len(s) - Len(substr) + 1) : SubSeq(s, i, i + Len(substr) - 1) = substr

\* strings.Split(s, sep) for a separator of one character.
RECURSIVE Split(_, _)
Split(s, sep) ==
    LET at == {i \in 1..Len(s) : SubSeq(s, i, i) = sep}
    IN  IF at = {} THEN <<s>>
        ELSE LET first == CHOOSE i \in at : \A j \in at : i <= j
             IN  <<SubSeq(s, 1, first - 1)>> \o Split(SubSeq(s, first + 1, Len(s)), sep)

Relationship(subject, relationship, object) ==
    [Subject |-> subject, Relationship |-> relationship, Object |-> object]

\* fmt.Sprintf("%s:%s", subject, relationship) and
\* fmt.Sprintf("%s:reverse_%s", object, relationship).
ForwardKey(subject, relationship) == subject \o ":" \o relationship
ReverseKey(object, relationship) == object \o ":reverse_" \o relationship

\* m[key] = append(m[key], rel)
CacheAppend(cache, key, rel) ==
    [k \in DOMAIN cache \cup {key} |->
        IF k = key
        THEN Append(IF key \in DOMAIN cache THEN cache[key] ELSE <<>>, rel)
        ELSE cache[k]]

\* The two appends AddRelationship and loadFromDatabase make for one edge.
CacheAdd(cache, subject, relationship, object) ==
    CacheAppend(CacheAppend(cache, ForwardKey(subject, relationship),
                            Relationship(subject, relationship, object)),
                ReverseKey(object, relationship),
                Relationship(object, "reverse_" \o relationship, subject))

\* The loop of loadFromDatabase over the records from position i.
RECURSIVE LoadRecords(_, _, _)
LoadRecords(cache, records, i) ==
    IF i > Len(records) THEN cache
    ELSE LoadRecords(CacheAdd(cache, records[i].Subject, records[i].Relationship,
                              records[i].Object),
                     records, i + 1)

\* loadFromDatabase: a fresh map filled from the table's rows.
loadFromDatabase(records) == LoadRecords(EmptyMap, records, 1)

\* The list without its first entry whose Object is object (the loop with
\* break of RemoveRelationship); the list itself when there is none.
RemoveFirst(list, object) ==
    IF \E i \in 1..Len(list) : list[i].Object = object
    THEN LET first == CHOOSE i \in 1..Len(list) :
                         /\ list[i].Object = object
                         /\ \A j \in 1..(i - 1) : list[j].Object # object
         IN  SubSeq(list, 1, first - 1) \o SubSeq(list, first + 1, Len(list))
    ELSE list

\* The cache after the loop of RemoveRelationship for one key.  The Go map
\* keeps a key whose last entry went, with an empty list; every reader of the
\* map ranges over the list or looks a key up and then ranges over the list,
\* so none tells that from a missing key, and the model drops the key.
CacheRemoveFirst(cache, key, object) ==
    IF key \notin DOMAIN cache THEN cache
    ELSE IF RemoveFirst(cache[key], object) = <<>>
    THEN [k \in DOMAIN cache \ {key} |-> cache[k]]
    ELSE [cache EXCEPT ![key] = RemoveFirst(cache[key], object)]

CacheRemove(cache, subject, relationship, object) ==
    CacheRemoveFirst(CacheRemoveFirst(cache, ForwardKey(subject, relationship), object),
                     ReverseKey(object, relationship), subject)

\* Mutant of mapActionToPermission: actions are not normalised.
mapActionToPermissionIdentity(action) == action

\* mapActionToPermission.
mapActionToPermission(action) ==
    CASE action = "view" -> "read"
      [] action \in {"edit", "update", "modify"} -> "write"
      [] action = "remove" -> "delete"
      [] action \in {"manage", "administer"} -> "admin"
      [] OTHER -> action

\* Mutant of hasPermissionThroughRelationship: admin is a permission like any
\* other.
hasPermissionWithoutAdmin(relationship, permission) ==
    /\ relationship \in DOMAIN permissions
    /\ \E i \in 1..Len(permissions[relationship]) :
          permissions[relationship][i] = permission

\* hasPermissionThroughRelationship (and CheckRelationshipPermission, which
\* differs only in taking the lock).
hasPermissionThroughRelationship(relationship, permission) ==
    /\ relationship \in DOMAIN permissions
    /\ \E i \in 1..Len(permissions[relationship]) :
          \/ permissions[relationship][i] = permission
          \/ permissions[relationship][i] = "admin"

\* The keys getDirectRelationships and the path finder accept for a node:
\* two parts, the first the node, the second without the reverse_ prefix.
\* The keys of a node, reverse keys included.
KeysOfNode(cache, node) ==
    {key \in DOMAIN cache :
        LET parts == Split(key, ":")
        IN  Len(parts) = 2 /\ parts[1] = node}

ForwardKeysOf(cache, node) ==
    {key \in DOMAIN cache :
        LET parts == Split(key, ":")
        IN  /\ Len(parts) = 2
            /\ parts[1] = node
            /\ ~HasPrefix(parts[2], "reverse_")}

\* getDirectRelationships, as the set of the edges it returns; their order in
\* the returned list follows the map's iteration order.
getDirectRelationships(cache, subject, object) ==
    UNION {{cache[key][i] : i \in {j \in 1..Len(cache[key]) : cache[key][j].Object = object}}
           : key \in ForwardKeysOf(cache, subject)}

\* The relationships through which the first loop of Enforce (or the inner
\* loop of checkGroupAccess) can return: any edge of the list that grants the
\* permission can come first.
GrantingRelationships(cache, subject, object, permission) ==
    {rel.Relationship : rel \in
        {r \in getDirectRelationships(cache, subject, object) :
            hasPermissionThroughRelationship(r.Relationship, permission)}}

\* fmt.Sprintf("%s -[%s]-> %s", from, relationship, to)
PathStep(from, relationship, to) == from \o " -[" \o relationship \o "]-> " \o to


\* What the loop over the map appends to the queue for the dequeued entry
\* current, when the map is ranged over in the order keyOrder: for each key
\* of the node, for each of its edges whose Object is not visited, an entry
\* one level deeper.
RECURSIVE Expansion(_, _, _, _, _)
Expansion(cache, keyOrder, i, current, visited) ==
    IF i > Len(keyOrder) THEN <<>>
    ELSE LET relationshipType == Split(keyOrder[i], ":")[2]
             open == SelectSeq(cache[keyOrder[i]], LAMBDA rel : rel.Object \notin visited)
         IN  [n \in 1..Len(open) |->
                 [node  |-> open[n].Object,
                  path  |-> PathStep(current.path, relationshipType, open[n].Object),
                  depth |-> current.depth + 1]]
             \o Expansion(cache, keyOrder, i + 1, current, visited)

\* The loop of FindRelationshipPath from a queue and a visited set: the set
\* of results [found, path] it can return, one for each order in which the
\* map can be ranged over.
RECURSIVE SearchFrom(_, _, _, _, _)
SearchFrom(cache, targetObject, maxDepth, queue, visited) ==
    IF queue = <<>> THEN {[found |-> FALSE, path |-> ""]}
    ELSE LET current == Head(queue)
         IN  IF current.depth > maxDepth
             THEN SearchFrom(cache, targetObject, maxDepth, Tail(queue), visited)
             ELSE IF current.node = targetObject
             THEN {[found |-> TRUE, path |-> current.path]}
             ELSE IF current.node \in visited
             THEN SearchFrom(cache, targetObject, maxDepth, Tail(queue), visited)
             ELSE UNION
                  {SearchFrom(cache, targetObject, maxDepth,
                              Tail(queue) \o Expansion(cache, keyOrder, 1, current,
                                                       visited \cup {current.node}),
                              visited \cup {current.node})
                   : keyOrder \in OrdersOf(ForwardKeysOf(cache, current.node))}

\* FindRelationshipPath with the depth limit taken as given.
FindRelationshipPathWithoutDefault(cache, subject, targetObject, maxDepth) ==
    SearchFrom(cache, targetObject, maxDepth,
               <<[node |-> subject, path |-> subject, depth |-> 0]>>, {})

\* FindRelationshipPath.
FindRelationshipPath(cache, subject, targetObject, maxDepth) ==
    SearchFrom(cache, targetObject, IF maxDepth <= 0 THEN DefaultMaxDepth ELSE maxDepth,
               <<[node |-> subject, path |-> subject, depth |-> 0]>>, {})

\* checkSocialAccess: the results [allowed, path] it can return.
checkSocialAccess(cache, subject, object, maxDepth) ==
    {IF /\ res.found
        /\ Contains(res.path, "friend")
        /\ hasPermissionThroughRelationship("friend", "read_limited")
     THEN [allowed |-> TRUE, path |-> res.path]
     ELSE [allowed |-> FALSE, path |-> ""]
     : res \in FindRelationshipPath(cache, subject, object, maxDepth)}

\* checkGroupAccess without the permission test on the group's edges.
checkGroupAccessUnchecked(cache, subject, object, permission) ==
    LET memberKey == ForwardKey(subject, "member")
        groups == IF memberKey \in DOMAIN cache THEN cache[memberKey] ELSE <<>>
    IN  {PathStep(PathStep(subject, "member", groups[i].Object), rel.Relationship, object)
         : i \in {j \in 1..Len(groups) :
                     getDirectRelationships(cache, groups[j].Object, object) # {}},
           rel \in UNION {getDirectRelationships(cache, groups[j].Object, object)
                          : j \in 1..Len(groups)}}

\* checkGroupAccess: the paths it can return with true (none: it returns
\* false).  The groups under "subject:member" are tried in list order; the
\* first that has a granting edge to the object decides.
checkGroupAccess(cache, subject, object, permission) ==
    LET memberKey == ForwardKey(subject, "member")
        groups == IF memberKey \in DOMAIN cache THEN cache[memberKey] ELSE <<>>
        granting == {i \in 1..Len(groups) :
                        GrantingRelationships(cache, groups[i].Object, object, permission) # {}}
    IN  IF granting = {} THEN {}
        ELSE LET first == CHOOSE i \in granting : \A j \in granting : i <= j
             IN  {PathStep(PathStep(subject, "member", groups[first].Object), rel, object)
                  : rel \in GrantingRelationships(cache, groups[first].Object, object, permission)}

\* checkHierarchicalAccess that finds no parent.
ParentObjectsNone(cache, object) == {}

\* The parent objects checkHierarchicalAccess recurses into for object: the
\* first part of every key "x:parent" that holds an edge to the object.
ParentObjects(cache, object) ==
    {Split(key, ":")[1] : key \in
        {k \in DOMAIN cache :
            LET parts == Split(k, ":")
            IN  /\ Len(parts) = 2
                /\ parts[2] = "parent"
                /\ \E i \in 1..Len(cache[k]) : cache[k][i].Object = object}}

\* A result of Enforce: allowed and path, or overflow when the call does not
\* return (the recursion through parent edges never ends and the goroutine's
\* stack overflows).
Result(allowed, path) == [allowed |-> allowed, path |-> path, overflow |-> FALSE]
Overflow == [allowed |-> FALSE, path |-> "", overflow |-> TRUE]

\* Enforce, as the set of the results it can give.  active is the set of the
\* objects of the Enforce calls this call is nested in (the subject and the
\* permission are the same in all of them); a parent object in it, or the
\* object itself, leads checkHierarchicalAccess back into a call that is
\* already running, which repeats without end.  The parent keys are ranged
\* over in any order, so any parent can be tried first, and the hierarchical
\* step is passed without success only if every parent can deny.
RECURSIVE EnforceResults(_, _, _, _, _)
EnforceResults(cache, subject, object, action, active) ==
    LET permission == mapActionToPermission(action)
        direct == GrantingRelationships(cache, subject, object, permission)
        group == checkGroupAccess(cache, subject, object, permission)
        parents == ParentObjects(cache, object)
        ofParent(parentObject) ==
            IF parentObject \in active \cup {object} THEN {Overflow}
            ELSE EnforceResults(cache, subject, parentObject, permission,
                                active \cup {object})
        hierarchical ==
            UNION {{IF res.overflow THEN Overflow
                    ELSE Result(TRUE, res.path \o " -> " \o parentObject
                                      \o " -[parent]-> " \o object)
                    : res \in {r \in ofParent(parentObject) : r.overflow \/ r.allowed}}
                   : parentObject \in parents}
        passed == \A parentObject \in parents :
                     \E res \in ofParent(parentObject) : ~res.overflow /\ ~res.allowed
        social ==
            IF permission = "read" \/ permission = "read_limited"
            THEN {Result(res.allowed, res.path)
                  : res \in checkSocialAccess(cache, subject, object, SocialMaxDepth)}
            ELSE {Result(FALSE, "")}
    IN  IF direct # {}
        THEN {Result(TRUE, PathStep(subject, rel, object)) : rel \in direct}
        ELSE IF group # {}
        THEN {Result(TRUE, path) : path \in group}
        ELSE hierarchical \cup (IF passed THEN social ELSE {})

Enforce(cache, subject, object, action) ==
    EnforceResults(cache, subject, object, action, {})


\* The repository's RemoveRelationship: every row of the triple is deleted.
RepoRemoveRelationship(rows, subject, relationship, object) ==
    SelectSeq(rows, LAMBDA row : row # Relationship(subject, relationship, object))

\* The number of edges the cache holds, forward and reverse.
RECURSIVE CacheSize(_)
CacheSize(cache) ==
    IF DOMAIN cache = {} THEN 0
    ELSE LET key == CHOOSE k \in DOMAIN cache : TRUE
         IN  Len(cache[key]) + CacheSize([k \in DOMAIN cache \ {key} |-> cache[k]])

\* AddRelationship.  repoOk: whether the repository's Create succeeds; when
\* it does not, the cache is not touched.  The table and the cache are kept
\* within MaxRows rows and MaxRows edges with their reverses.
ReBACAddRelationship(s, r, o, repoOk) ==
    /\ Len(relStore) < MaxRows
    /\ CacheSize(relationships) < 2 * MaxRows
    /\ relStore' = IF repoOk THEN Append(relStore, Relationship(s, r, o)) ELSE relStore
    /\ relationships' = IF repoOk THEN CacheAdd(relationships, s, r, o) ELSE relationships
    /\ lastCall' = [op |-> "ReBACAddRelationship",
                    edge |-> Relationship(s, r, o),
                    err |-> IF repoOk THEN "nil"
                            ELSE "failed to save relationship to repository",
                    before |-> [rows |-> relStore, cache |-> relationships]]
    /\ UNCHANGED <<aclVars, rbacVars, abacVars, concVars>>

\* RemoveRelationship.  When the call before it was the successful
\* AddRelationship of the same triple, lastCall keeps the table and the cache
\* from before that Add (undoes says so).
ReBACRemoveRelationship(s, r, o, repoOk) ==
    /\ relStore' = IF repoOk THEN RepoRemoveRelationship(relStore, s, r, o) ELSE relStore
    /\ relationships' = IF repoOk THEN CacheRemove(relationships, s, r, o) ELSE relationships
    /\ LET undoes == /\ lastCall.op = "ReBACAddRelationship"
                      /\ lastCall.err = "nil"
                      /\ lastCall.edge = Relationship(s, r, o)
       IN  lastCall' = [op |-> "ReBACRemoveRelationship",
                        edge |-> Relationship(s, r, o),
                        err |-> IF repoOk THEN "nil"
                                ELSE "failed to remove relationship from repository",
                        undoes |-> undoes,
                        before |-> IF undoes THEN lastCall.before
                                   ELSE [rows |-> <<>>, cache |-> EmptyMap]]
    /\ UNCHANGED <<aclVars, rbacVars, abacVars, concVars>>

\* A new engine on the same table (NewReBACEnforcerImpl): the cache is what
\* loadFromDatabase builds, or empty when LoadAllRelationships fails, which
\* the constructor only logs.
ReBACRestart(loadOk) ==
    /\ relationships' = IF loadOk THEN loadFromDatabase(relStore) ELSE EmptyMap
    /\ lastCall' = [op |-> "ReBACRestart", loaded |-> loadOk]
    /\ UNCHANGED <<aclVars, rbacVars, abacVars, relStore, concVars>>

\* Enforce.
ReBACEnforceCall(s, o, a) ==
    /\ \E res \in Enforce(relationships, s, o, a) :
          lastCall' = [op |-> "ReBACEnforce", subject |-> s, object |-> o, action |-> a,
                       allowed |-> res.allowed, path |-> res.path,
                       overflow |-> res.overflow]
    /\ UNCHANGED <<aclVars, rbacVars, abacVars, rebacVars, concVars>>

\* The loop of GetRelationships over the keys in the order keyOrder, from
\* position i: result = append(result, rels...).
RECURSIVE ConcatLists(_, _, _)
ConcatLists(cache, keyOrder, i) ==
    IF i > Len(keyOrder) THEN <<>>
    ELSE cache[keyOrder[i]] \o ConcatLists(cache, keyOrder, i + 1)

\* GetRelationships, as the set of the lists it can return (one for each
\* order in which the map can be ranged over): the edges under the forward
\* keys of the subject, or under every forward key when the subject is "".
GetRelationships(cache, subject) ==
    LET keys == IF subject # "" THEN ForwardKeysOf(cache, subject)
                ELSE {key \in DOMAIN cache :
                         LET parts == Split(key, ":")
                         IN  Len(parts) = 2 /\ ~HasPrefix(parts[2], "reverse_")}
    IN  {ConcatLists(cache, keyOrder, 1) : keyOrder \in OrdersOf(keys)}

ReBACGetRelationships(subject) ==
    /\ \E list \in GetRelationships(relationships, subject) :
          lastCall' = [op |-> "ReBACGetRelationships", subject |-> subject, result |-> list]
    /\ UNCHANGED <<aclVars, rbacVars, abacVars, rebacVars, concVars>>

\* CheckRelationshipPermission.
ReBACCheckRelationshipPermission(relationship, permission) ==
    /\ lastCall' = [op |-> "ReBACCheckRelationshipPermission",
                    relationship |-> relationship, permission |-> permission,
                    granted |-> hasPermissionThroughRelationship(relationship, permission)]
    /\ UNCHANGED <<aclVars, rbacVars, abacVars, rebacVars, concVars>>

\* The graph specification: any administration of a small universe, in which
\* bob is both something alice can be related to (a group, a friend, a parent
\* object) and something related to doc.
RebacSubjects == {"alice", "bob"}
RebacObjects == {"bob", "doc"}
RebacRelationships == {"owner", "member", "parent", "friend"}
RebacActions == {"read", "edit"}

InitReBAC == InitEmpty

NextReBAC ==
    \/ \E s \in RebacSubjects, r \in RebacRelationships, o \in RebacObjects,
          repoOk \in BOOLEAN :
          \/ ReBACAddRelationship(s, r, o, repoOk)
          \/ ReBACRemoveRelationship(s, r, o, repoOk)
    \/ \E loadOk \in BOOLEAN : ReBACRestart(loadOk)
    \/ \E s \in RebacSubjects, o \in RebacObjects, a \in RebacActions :
          ReBACEnforceCall(s, o, a)
    \/ \E subject \in {"", "alice"} : ReBACGetRelationships(subject)

SpecReBAC == InitReBAC /\ [][NextReBAC]_vars

\* The single-edge specification: an engine started on a table of one row,
\* or of that row and a second one between other nodes, for every
\* relationship of the default map and one outside it, and every action:
\* those the lists name, their aliases, and one no list names.
EdgeNodes == {"alice", "doc"}
EdgeRelationships == DOMAIN permissions \cup {"colleague"}
EdgeActions ==
    {"read", "view", "write", "edit", "delete", "remove", "admin", "manage",
     "inherit", "read_limited", "print"}

EdgeOtherRows ==
    {Relationship("bob", "owner", "carol"), Relationship("carol", "parent", "bob")}

InitEdge ==
    /\ aclRules = <<>>
    /\ rbacRules = <<>>
    /\ policyStore = EmptyMap
    /\ policies = EmptyMap
    /\ userAttributes = EmptyMap
    /\ objectAttributes = EmptyMap
    /\ \E s \in EdgeNodes, r \in EdgeRelationships, o \in EdgeNodes :
          \/ relStore = <<Relationship(s, r, o)>>
          \/ \E other \in EdgeOtherRows : relStore = <<Relationship(s, r, o), other>>
    /\ relationships = loadFromDatabase(relStore)
    /\ lastCall = NoCall
    /\ calls = [c \in Callers |-> Idle]
    /\ mu = MuFree
    /\ enforcers = Models

NextEdge ==
    \/ \E s \in EdgeNodes, o \in EdgeNodes, a \in EdgeActions : ReBACEnforceCall(s, o, a)
    \/ \E r \in EdgeRelationships, p \in {mapActionToPermission(a) : a \in EdgeActions} :
          ReBACCheckRelationshipPermission(r, p)

SpecEdge == InitEdge /\ [][NextEdge]_vars


(***************************************************************************)
(* ReBAC claims.                                                           *)
(***************************************************************************)
ReBACEnforced == lastCall.op = "ReBACEnforce"

\* The forward entries of the cache, as <<key, index>>, and those of them
\* that touch s or o.
ForwardEntries(cache) ==
    {ki \in UNION {{<<key, i>> : i \in 1..Len(cache[key])} : key \in DOMAIN cache} :
        ~HasPrefix(cache[ki[1]][ki[2]].Relationship, "reverse_")}

TouchingEntries(cache, s, o) ==
    {ki \in ForwardEntries(cache) :
        \/ cache[ki[1]][ki[2]].Subject \in {s, o}
        \/ cache[ki[1]][ki[2]].Object \in {s, o}}

\* The normalisation table and the permission lists, as the claims read them.
Normalized(a) ==
    IF a = "view" THEN "read"
    ELSE IF a \in {"edit", "update", "modify"} THEN "write"
    ELSE IF a = "remove" THEN "delete"
    ELSE IF a \in {"manage", "administer"} THEN "admin"
    ELSE a

ListHas(r, p) ==
    r \in DOMAIN permissions /\ \E i \in 1..Len(permissions[r]) : permissions[r][i] = p

C8_AdminDominance ==
    /\ ReBACEnforced =>
          /\ (\E ki \in ForwardEntries(relationships) :
                 LET edge == relationships[ki[1]][ki[2]]
                 IN  /\ edge.Subject = lastCall.subject
                     /\ edge.Object = lastCall.object
                     /\ ListHas(edge.Relationship, "admin"))
             => (lastCall.allowed /\ ~lastCall.overflow)
          /\ \A ki \in TouchingEntries(relationships, lastCall.subject, lastCall.object) :
                (/\ TouchingEntries(relationships, lastCall.subject, lastCall.object) = {ki}
                 /\ relationships[ki[1]][ki[2]].Relationship \notin DOMAIN permissions)
                => ~lastCall.allowed
    /\ lastCall.op = "ReBACCheckRelationshipPermission" =>
          /\ ListHas(lastCall.relationship, "admin") => lastCall.granted
          /\ lastCall.relationship \notin DOMAIN permissions => ~lastCall.granted

\* alice owns doc and is allowed to print it, an action no list names.
C8_Witness ==
    /\ ReBACEnforced
    /\ relStore = <<Relationship("alice", "owner", "doc")>>
    /\ lastCall.subject = "alice" /\ lastCall.object = "doc"
    /\ lastCall.action = "print"
    /\ lastCall.allowed


\* path is a chain of nodes from `from` to `to` in which consecutive nodes
\* are separated by " -[rel]-> " and by nothing else.
RECURSIVE IsArrowPath(_, _, _)
IsArrowPath(path, from, to) ==
    \/ path = from /\ from = to
    \/ \E rel \in RebacRelationships, next \in RebacSubjects \cup RebacObjects :
          LET step == from \o " -[" \o rel \o "]-> "
          IN  /\ HasPrefix(path, step \o next)
              /\ IsArrowPath(SubSeq(path, Len(step) + 1, Len(path)), next, to)

\* C9: whenever Enforce(s, o, a) returns true, the returned path begins with
\* s, ends with o, and its consecutive nodes are separated only by segments
\* of the form " -[rel]-> ".
C9_PathShape ==
    (ReBACEnforced /\ lastCall.allowed) =>
        IsArrowPath(lastCall.path, lastCall.subject, lastCall.object)

\* The set of the triples of the cache's forward entries.
ForwardEdges(cache) ==
    {cache[ki[1]][ki[2]] : ki \in ForwardEntries(cache)}

\* The decisions Enforce can give on a cache.
Decisions(cache, s, o, a) == {res.allowed : res \in Enforce(cache, s, o, a)}

\* A new engine on the table would hold the forward edges the running engine
\* holds, and decide every request as it does.
Durable(cache, rows) ==
    /\ ForwardEdges(loadFromDatabase(rows)) = ForwardEdges(cache)
    /\ \A s \in RebacSubjects, o \in RebacObjects, a \in RebacActions :
          Decisions(loadFromDatabase(rows), s, o, a) = Decisions(cache, s, o, a)

\* C10: write-through durability: a successful AddRelationship or
\* RemoveRelationship, repeated adds of one triple included, takes a cache
\* that a restart on the table would reproduce to a cache that a restart on
\* the table would reproduce.
C10_WriteThrough ==
    [][ (/\ lastCall'.op \in {"ReBACAddRelationship", "ReBACRemoveRelationship"}
         /\ lastCall'.err = "nil"
         /\ Durable(relationships, relStore))
        => Durable(relationships', relStore') ]_vars


\* The number of entries of list equal to x, and whether two lists hold the
\* same entries the same number of times.
Count(list, x) == Cardinality({i \in 1..Len(list) : list[i] = x})
SameEntries(list1, list2) ==
    \A x \in Range(list1) \cup Range(list2) : Count(list1, x) = Count(list2, x)

\* C11: AddRelationship(s, r, o) followed by RemoveRelationship(s, r, o), both
\* successful, returns the table and the cache to what they were before the
\* Add, also when the triple was there before: the table holds the same rows,
\* GetRelationships lists the same edges and every Enforce decides the same.
C11_AddRemoveRoundTrip ==
    (/\ lastCall.op = "ReBACRemoveRelationship"
     /\ lastCall.err = "nil"
     /\ lastCall.undoes)
    => /\ SameEntries(relStore, lastCall.before.rows)
       /\ \A subject \in {"", "alice", "bob"} :
             \A now \in GetRelationships(relationships, subject),
                then \in GetRelationships(lastCall.before.cache, subject) :
                SameEntries(now, then)
       /\ \A s \in RebacSubjects, o \in RebacObjects, a \in RebacActions :
             Decisions(relationships, s, o, a) = Decisions(lastCall.before.cache, s, o, a)

\* C12: relationships have set semantics: GetRelationships lists each triple
\* at most once, also when the same triple was added more than once.
C12_SetSemantics ==
    lastCall.op = "ReBACGetRelationships" =>
        \A x \in Range(lastCall.result) : Count(lastCall.result, x) = 1


(***************************************************************************)
(* The RBAC engine with calls that interleave.  The engine holds no lock   *)
(* and opens no transaction, so a call is a sequence of repository         *)
(* statements, each atomic, between which the statements of the other      *)
(* caller can run: Enforce is GetPolicy then GetRolesForUser; AddPolicy    *)
(* and AddRoleForUser are the lookup (First) then the Create; the removes  *)
(* are one Delete.  A finished call stays in calls with its result until   *)
(* the caller takes it (Return).                                           *)
(*                                                                         *)
(* held, in the record of an Enforce in progress, notes whether the table  *)
(* granted the request in some state since the call began.                 *)
(***************************************************************************)
ConcurrentRbacRows ==
    {RBACPolicyRule("alice", "data", "read"), RBACPolicyRule("r1", "data", "read"),
     RBACRoleRule("alice", "r1")}

\* The calls with held brought up to date for the table rules.
NoteGrant(cs, rules) ==
    [c \in Callers |->
        IF cs[c].pc = "roles"
        THEN [cs[c] EXCEPT !.held = @ \/ RBACEnforce(rules, cs[c].subject,
                                                     cs[c].object, cs[c].action)]
        ELSE cs[c]]

\* The Creates that calls in progress are about to make.
PendingCreates == Cardinality({c \in Callers : calls[c].pc = "create"})

\* Enforce, first statement: GetPolicy and the loop over the direct policies.
RBACEnforceGetPolicy(c, s, o, a) ==
    /\ calls[c] = Idle
    /\ calls' = [calls EXCEPT ![c] =
          IF RBACPolicyMatches(RBACGetPolicy(rbacRules), s, o, a)
          THEN [pc |-> "done", op |-> "RBACEnforce", subject |-> s, object |-> o,
                action |-> a, allowed |-> TRUE, held |-> TRUE]
          ELSE [pc |-> "roles", op |-> "RBACEnforce", subject |-> s, object |-> o,
                action |-> a, policiesSeen |-> RBACGetPolicy(rbacRules),
                held |-> RBACEnforce(rbacRules, s, o, a)]]
    /\ UNCHANGED <<aclVars, rbacVars, abacVars, rebacVars, lastCall, mu, enforcers>>

\* Enforce, second statement: GetRolesForUser and the loop over the roles and
\* the policies read before.
RBACEnforceGetRoles(c) ==
    /\ calls[c].pc = "roles"
    /\ LET roles == RBACGetRolesForUser(rbacRules, calls[c].subject)
       IN  calls' = [calls EXCEPT ![c] =
              [pc |-> "done", op |-> "RBACEnforce", subject |-> calls[c].subject,
               object |-> calls[c].object, action |-> calls[c].action,
               allowed |-> \E k \in 1..Len(roles) :
                              RBACPolicyMatches(calls[c].policiesSeen, roles[k],
                                                calls[c].object, calls[c].action),
               held |-> calls[c].held]]
    /\ UNCHANGED <<aclVars, rbacVars, abacVars, rebacVars, lastCall, mu, enforcers>>

\* AddPolicy / AddRoleForUser, first statement: the lookup of the row.
RBACAddLookup(c, row) ==
    /\ calls[c] = Idle
    /\ Len(rbacRules) + PendingCreates < MaxRbacRules
    /\ calls' = [calls EXCEPT ![c] =
          IF \E i \in 1..Len(rbacRules) : rbacRules[i] = row
          THEN [pc |-> "done", op |-> "RBACAdd", row |-> row, ok |-> FALSE]
          ELSE [pc |-> "create", op |-> "RBACAdd", row |-> row]]
    /\ UNCHANGED <<aclVars, rbacVars, abacVars, rebacVars, lastCall, mu, enforcers>>

\* AddPolicy / AddRoleForUser, second statement: the Create.
RBACAddCreate(c) ==
    /\ calls[c].pc = "create" /\ calls[c].op = "RBACAdd"
    /\ rbacRules' = Append(rbacRules, calls[c].row)
    /\ calls' = [NoteGrant(calls, rbacRules') EXCEPT ![c] =
          [pc |-> "done", op |-> "RBACAdd", row |-> calls[c].row, ok |-> TRUE]]
    /\ UNCHANGED <<aclVars, abacVars, rebacVars, lastCall, mu, enforcers>>

\* RemovePolicy / RemoveRoleForUser: one Delete.
RBACRemoveDelete(c, row) ==
    /\ calls[c] = Idle
    /\ rbacRules' = RBACRepoRemove(rbacRules, row).rules
    /\ calls' = [NoteGrant(calls, rbacRules') EXCEPT ![c] =
          [pc |-> "done", op |-> "RBACRemove", row |-> row,
           ok |-> RBACRepoRemove(rbacRules, row).changed]]
    /\ UNCHANGED <<aclVars, abacVars, rebacVars, lastCall, mu, enforcers>>

\* The caller takes the result of its finished call.
Return(c) ==
    /\ calls[c].pc = "done"
    /\ calls' = [calls EXCEPT ![c] = Idle]
    /\ UNCHANGED <<aclVars, rbacVars, abacVars, rebacVars, lastCall, mu, enforcers>>

InitRBACConcurrent == InitEmpty

NextRBACConcurrent ==
    \E c \in Callers :
        \/ RBACEnforceGetPolicy(c, "alice", "data", "read")
        \/ RBACEnforceGetRoles(c)
        \/ \E row \in ConcurrentRbacRows : RBACAddLookup(c, row) \/ RBACRemoveDelete(c, row)
        \/ RBACAddCreate(c)
        \/ Return(c)

SpecRBACConcurrent == InitRBACConcurrent /\ [][NextRBACConcurrent]_vars

\* C13: within one RBAC Enforce the policies and the role assignments are
\* read from one snapshot: a call that returns true had, between its start
\* and its end, a state of the table in which the direct or role-based grant
\* held.
C13_EnforceSnapshot ==
    \A c \in Callers :
        (calls[c].pc = "done" /\ calls[c].op = "RBACEnforce" /\ calls[c].allowed)
        => calls[c].held


(***************************************************************************)
(* The ACL engine with calls that interleave.  As for RBAC there is no     *)
(* lock and no transaction: AddPolicy is the lookup (First) then the       *)
(* Create, RemovePolicy one Delete, Enforce one GetPolicy.                 *)
(*                                                                         *)
(* overlapped, in the record of an AddPolicy, notes that the other         *)
(* caller's AddPolicy was in progress during this one; absent, that the    *)
(* lookup did not find the row.                                            *)
(***************************************************************************)
ConcurrentAclTriples == {<<"alice", "doc1", "read">>, <<"bob", "doc1", "read">>}

Other(c) == CHOOSE d \in Callers : d # c

\* AddPolicy, first statement: the lookup of the row.
ACLAddLookup(c, s, o, a) ==
    /\ calls[c] = Idle
    /\ Len(aclRules) + PendingCreates < MaxAclRules
    /\ LET found == \E i \in 1..Len(aclRules) : aclRules[i] = ACLRule(s, o, a)
           racing == calls[Other(c)].pc = "create"
       IN  calls' = [d \in Callers |->
              IF d = c
              THEN IF found
                   THEN [pc |-> "done", op |-> "ACLAddPolicy", row |-> ACLRule(s, o, a),
                         ok |-> FALSE, overlapped |-> racing, absent |-> FALSE]
                   ELSE [pc |-> "create", op |-> "ACLAddPolicy", row |-> ACLRule(s, o, a),
                         overlapped |-> racing, absent |-> TRUE]
              ELSE IF racing THEN [calls[d] EXCEPT !.overlapped = TRUE] ELSE calls[d]]
    /\ UNCHANGED <<aclVars, rbacVars, abacVars, rebacVars, lastCall, mu, enforcers>>

\* AddPolicy, second statement: the Create.
ACLAddCreate(c) ==
    /\ calls[c].pc = "create" /\ calls[c].op = "ACLAddPolicy"
    /\ aclRules' = Append(aclRules, calls[c].row)
    /\ calls' = [calls EXCEPT ![c] =
          [pc |-> "done", op |-> "ACLAddPolicy", row |-> calls[c].row, ok |-> TRUE,
           overlapped |-> calls[c].overlapped, absent |-> TRUE]]
    /\ UNCHANGED <<rbacVars, abacVars, rebacVars, lastCall, mu, enforcers>>

\* RemovePolicy: one Delete.
ACLRemoveDelete(c, s, o, a) ==
    /\ calls[c] = Idle
    /\ aclRules' = ACLRepoRemovePolicy(aclRules, s, o, a).rules
    /\ calls' = [calls EXCEPT ![c] =
          [pc |-> "done", op |-> "ACLRemovePolicy", row |-> ACLRule(s, o, a),
           ok |-> ACLRepoRemovePolicy(aclRules, s, o, a).changed]]
    /\ UNCHANGED <<rbacVars, abacVars, rebacVars, lastCall, mu, enforcers>>

\* Enforce: one GetPolicy and the loop over its result.
ACLEnforceGetPolicy(c, s, o, a) ==
    /\ calls[c] = Idle
    /\ calls' = [calls EXCEPT ![c] =
          [pc |-> "done", op |-> "ACLEnforce", row |-> ACLRule(s, o, a),
           allowed |-> ACLEnforce(aclRules, s, o, a)]]
    /\ UNCHANGED <<aclVars, rbacVars, abacVars, rebacVars, lastCall, mu, enforcers>>

InitACLConcurrent == InitEmpty

NextACLConcurrent ==
    \E c \in Callers :
        \/ \E t \in ConcurrentAclTriples :
              \/ ACLAddLookup(c, t[1], t[2], t[3])
              \/ ACLRemoveDelete(c, t[1], t[2], t[3])
              \/ ACLEnforceGetPolicy(c, t[1], t[2], t[3])
        \/ ACLAddCreate(c)
        \/ Return(c)

SpecACLConcurrent == InitACLConcurrent /\ [][NextACLConcurrent]_vars

\* Both callers have finished an AddPolicy of the same triple, the two calls
\* ran concurrently, and the triple was not stored when they began.
BothAddedConcurrently ==
    /\ \A c \in Callers : calls[c].pc = "done" /\ calls[c].op = "ACLAddPolicy"
                          /\ calls[c].overlapped
    /\ calls["c1"].row = calls["c2"].row
    /\ calls["c1"].absent /\ calls["c2"].absent

\* C14: writes are serialized: of two concurrent AddPolicy calls for the
\* same ACL triple exactly one returns added = true, the other returns
\* added = false, and the triple is stored once.
C14_AddSerialized ==
    BothAddedConcurrently
    => /\ Cardinality({c \in Callers : calls[c].ok}) = 1
       /\ Cardinality({i \in 1..Len(aclRules) : aclRules[i] = calls["c1"].row}) = 1


(***************************************************************************)
(* The ReBAC engine with calls that interleave.  mu is the engine's        *)
(* sync.RWMutex: readers counts the calls that hold the read lock, writer  *)
(* is the call that holds the write lock, pending the calls blocked in     *)
(* Lock().  A writer blocked in Lock() keeps new readers out, so RLock     *)
(* proceeds only when no writer holds or waits; Lock proceeds when no      *)
(* reader and no writer holds.                                             *)
(*                                                                         *)
(* AddRelationship and RemoveRelationship write the repository first and   *)
(* call Lock() afterwards; Enforce takes the read lock, and takes it again *)
(* in FindRelationshipPath when it gets as far as checkSocialAccess.  The  *)
(* callers here add and remove no parent edge, so checkHierarchicalAccess  *)
(* makes no recursive Enforce and that is the only nested RLock.           *)
(*                                                                         *)
(* fresh, in the record of an administrative call, notes that neither the  *)
(* table nor the cache held the call's triple when the call began or, if   *)
(* the other caller's call was in progress then, when that one began.      *)
(***************************************************************************)
ConcurrentTriples == {<<"alice", "owner", "doc">>, <<"alice", "friend", "bob">>}

ConcurrentRequests ==
    {<<"alice", "doc", "read">>, <<"alice", "bob", "read">>, <<"alice", "doc", "edit">>}

InFlight(call) == call.pc \notin {"idle", "done"}

\* The forward edges of the triple in the cache.
CachedCopies(cache, edge) ==
    LET key == ForwardKey(edge.Subject, edge.Relationship)
    IN  IF key \in DOMAIN cache THEN Count(cache[key], edge) ELSE 0

Fresh(c, edge) ==
    IF InFlight(calls[Other(c)]) /\ "fresh" \in DOMAIN calls[Other(c)]
    THEN calls[Other(c)].fresh
    ELSE Count(relStore, edge) = 0 /\ CachedCopies(relationships, edge) = 0

\* The AddRelationship calls that have written the repository and not yet
\* the cache.
PendingCacheAdds ==
    Cardinality({c \in Callers : InFlight(calls[c]) /\ calls[c].op = "ReBACAddRelationship"})

RLockFree == mu.writer = "" /\ mu.pending = {}

\* AddRelationship, first statement: repo.AddRelationship.
AddRepoWrite(c, s, r, o, repoOk) ==
    /\ calls[c] = Idle
    /\ Len(relStore) < MaxRows
    /\ CacheSize(relationships) + 2 * PendingCacheAdds < 2 * MaxRows
    /\ relStore' = IF repoOk THEN Append(relStore, Relationship(s, r, o)) ELSE relStore
    /\ calls' = [calls EXCEPT ![c] =
          IF repoOk
          THEN [pc |-> "lock", op |-> "ReBACAddRelationship",
                edge |-> Relationship(s, r, o), fresh |-> Fresh(c, Relationship(s, r, o))]
          ELSE [pc |-> "done", op |-> "ReBACAddRelationship",
                edge |-> Relationship(s, r, o), fresh |-> Fresh(c, Relationship(s, r, o)),
                err |-> "failed to save relationship to repository"]]
    /\ UNCHANGED <<aclVars, rbacVars, abacVars, relationships, lastCall, mu, enforcers>>

\* RemoveRelationship, first statement: repo.RemoveRelationship.
RemoveRepoDelete(c, s, r, o, repoOk) ==
    /\ calls[c] = Idle
    /\ relStore' = IF repoOk THEN RepoRemoveRelationship(relStore, s, r, o) ELSE relStore
    /\ calls' = [calls EXCEPT ![c] =
          IF repoOk
          THEN [pc |-> "lock", op |-> "ReBACRemoveRelationship",
                edge |-> Relationship(s, r, o), fresh |-> Fresh(c, Relationship(s, r, o))]
          ELSE [pc |-> "done", op |-> "ReBACRemoveRelationship",
                edge |-> Relationship(s, r, o), fresh |-> Fresh(c, Relationship(s, r, o)),
                err |-> "failed to remove relationship from repository"]]
    /\ UNCHANGED <<aclVars, rbacVars, abacVars, relationships, lastCall, mu, enforcers>>

\* e.mu.Lock(), entered: the call waits for the write lock.
LockRequest(c) ==
    /\ calls[c].pc = "lock"
    /\ mu' = [mu EXCEPT !.pending = @ \cup {c}]
    /\ calls' = [calls EXCEPT ![c].pc = "locking"]
    /\ UNCHANGED <<aclVars, rbacVars, abacVars, rebacVars, lastCall, enforcers>>

\* e.mu.Lock(), returned.
LockAcquire(c) ==
    /\ calls[c].pc = "locking"
    /\ mu.readers = 0 /\ mu.writer = ""
    /\ mu' = [mu EXCEPT !.pending = @ \ {c}, !.writer = c]
    /\ calls' = [calls EXCEPT ![c].pc = "locked"]
    /\ UNCHANGED <<aclVars, rbacVars, abacVars, rebacVars, lastCall, enforcers>>

\* The cache mutation of AddRelationship or RemoveRelationship under the
\* write lock, and the deferred Unlock.
CacheWrite(c) ==
    /\ calls[c].pc = "locked"
    /\ LET edge == calls[c].edge
       IN  relationships' =
              IF calls[c].op = "ReBACAddRelationship"
              THEN CacheAdd(relationships, edge.Subject, edge.Relationship, edge.Object)
              ELSE CacheRemove(relationships, edge.Subject, edge.Relationship, edge.Object)
    /\ mu' = [mu EXCEPT !.writer = ""]
    /\ calls' = [calls EXCEPT ![c] =
          [pc |-> "done", op |-> calls[c].op, edge |-> calls[c].edge,
           fresh |-> calls[c].fresh, err |-> "nil"]]
    /\ UNCHANGED <<aclVars, rbacVars, abacVars, relStore, lastCall, enforcers>>

\* Enforce: e.mu.RLock() at its entry.
EnforceRLock(c, s, o, a) ==
    /\ calls[c] = Idle
    /\ RLockFree
    /\ mu' = [mu EXCEPT !.readers = @ + 1]
    /\ calls' = [calls EXCEPT ![c] =
          [pc |-> "holding", op |-> "ReBACEnforce", subject |-> s, object |-> o,
           action |-> a]]
    /\ UNCHANGED <<aclVars, rbacVars, abacVars, rebacVars, lastCall, enforcers>>

\* Whether Enforce gets as far as checkSocialAccess, whose
\* FindRelationshipPath takes the read lock again.
ReachesFindRelationshipPath(cache, subject, object, action) ==
    LET permission == mapActionToPermission(action)
    IN  /\ GrantingRelationships(cache, subject, object, permission) = {}
        /\ checkGroupAccess(cache, subject, object, permission) = {}
        /\ \A parentObject \in ParentObjects(cache, object) :
              \E res \in EnforceResults(cache, subject, parentObject, permission, {object}) :
                 ~res.overflow /\ ~res.allowed
        /\ permission = "read" \/ permission = "read_limited"

\* Enforce under its read lock up to checkSocialAccess: it returns from the
\* direct, group or hierarchical step (RUnlock), or goes on to
\* FindRelationshipPath.
EnforceBody(c) ==
    /\ calls[c].pc = "holding"
    /\ IF ReachesFindRelationshipPath(relationships, calls[c].subject, calls[c].object,
                                      calls[c].action)
       THEN /\ calls' = [calls EXCEPT ![c].pc = "relock"]
            /\ mu' = mu
       ELSE /\ \E res \in Enforce(relationships, calls[c].subject, calls[c].object,
                                  calls[c].action) :
                  calls' = [calls EXCEPT ![c] =
                     [pc |-> "done", op |-> "ReBACEnforce", allowed |-> res.allowed,
                      path |-> res.path]]
            /\ mu' = [mu EXCEPT !.readers = @ - 1]
    /\ UNCHANGED <<aclVars, rbacVars, abacVars, rebacVars, lastCall, enforcers>>

\* FindRelationshipPath's e.mu.RLock() inside Enforce, the search, both
\* RUnlocks and the return of Enforce.
EnforceRelock(c) ==
    /\ calls[c].pc = "relock"
    /\ RLockFree
    /\ \E res \in Enforce(relationships, calls[c].subject, calls[c].object,
                          calls[c].action) :
          calls' = [calls EXCEPT ![c] =
             [pc |-> "done", op |-> "ReBACEnforce", allowed |-> res.allowed,
              path |-> res.path]]
    /\ mu' = [mu EXCEPT !.readers = @ - 1]
    /\ UNCHANGED <<aclVars, rbacVars, abacVars, rebacVars, lastCall, enforcers>>

InitReBACConcurrent == InitEmpty

NextReBACConcurrent ==
    \E c \in Callers :
        \/ \E t \in ConcurrentTriples, repoOk \in BOOLEAN :
              \/ AddRepoWrite(c, t[1], t[2], t[3], repoOk)
              \/ RemoveRepoDelete(c, t[1], t[2], t[3], repoOk)
        \/ LockRequest(c)
        \/ LockAcquire(c)
        \/ CacheWrite(c)
        \/ \E q \in ConcurrentRequests : EnforceRLock(c, q[1], q[2], q[3])
        \/ EnforceBody(c)
        \/ EnforceRelock(c)
        \/ Return(c)

SpecReBACConcurrent == InitReBACConcurrent /\ [][NextReBACConcurrent]_vars

\* One caller has finished AddRelationship and the other RemoveRelationship
\* of the same triple, both without error, and neither the table nor the
\* cache held the triple before the two calls.
AddAndRemoveReturned ==
    \E c \in Callers :
        /\ calls[c].pc = "done" /\ calls[c].op = "ReBACAddRelationship"
        /\ calls[Other(c)].pc = "done" /\ calls[Other(c)].op = "ReBACRemoveRelationship"
        /\ calls[c].edge = calls[Other(c)].edge
        /\ calls[c].err = "nil" /\ calls[Other(c)].err = "nil"
        /\ calls[c].fresh /\ calls[Other(c)].fresh

\* C15: the repository write and the cache mutation of one administrative
\* call happen under the write lock: when AddRelationship(s, r, o) and
\* RemoveRelationship(s, r, o) run concurrently, in every interleaving, once
\* both have returned the cache holds the forward edge (s, r, o) exactly when
\* the table holds the triple.
C15_CacheAgreesWithStore ==
    AddAndRemoveReturned
    => (CachedCopies(relationships, calls["c1"].edge) > 0
        <=> Count(relStore, calls["c1"].edge) > 0)

\* C16: Enforce always returns: it takes the read lock once per call and
\* never waits for the lock again while it holds it, so no Enforce that holds
\* the read lock is at a second RLock while a writer waits in Lock() for the
\* readers to leave.
C16_EnforceNeverWaitsHolding ==
    \A c \in Callers : calls[c].pc = "relock" => RLockFree


(***************************************************************************)
(* The dispatcher, AuthorizationServiceImpl.Enforce, over the four         *)
(* engines.  An error is [is, msg]: the sentinel errors of the domain      *)
(* package it is or wraps (what errors.Is tells the caller) and its text.  *)
(* The result the caller gets is the pair the method returns, [allowed,    *)
(* err]; lastCall also notes the engine that was called ("" for none) and  *)
(* what that engine returned.                                              *)
(***************************************************************************)
NilError == [is |-> {}, msg |-> "nil"]
ErrInvalidInput == [is |-> {"ErrInvalidInput"}, msg |-> "invalid input"]
ErrServiceUnavailable == [is |-> {"ErrServiceUnavailable"}, msg |-> "service unavailable"]

\* fmt.Errorf without %w, and an engine's error: an error that is none of the
\* sentinels.
Errorf(msg) == [is |-> {}, msg |-> msg]
EngineError(msg) == IF msg = "nil" THEN NilError ELSE Errorf(msg)

\* What Enforce can give for the request: the engine called, the engine's
\* result and the pair returned to the caller.
DispatcherResults(model, subject, object, action, attributes, clock, fail) ==
    LET unavailable == {[engine |-> "", engineResult |-> [path |-> ""],
                         returned |-> [allowed |-> FALSE, err |-> ErrServiceUnavailable]]}
    IN  CASE model = "acl" ->
                IF "acl" \notin enforcers THEN unavailable
                ELSE {[engine |-> "acl",
                       engineResult |-> [allowed |-> ACLEnforce(aclRules, subject, object, action)],
                       returned |-> [allowed |-> ACLEnforce(aclRules, subject, object, action),
                                     err |-> NilError]]}
          [] model = "rbac" ->
                IF "rbac" \notin enforcers THEN unavailable
                ELSE {[engine |-> "rbac",
                       engineResult |-> [allowed |-> RBACEnforce(rbacRules, subject, object, action)],
                       returned |-> [allowed |-> RBACEnforce(rbacRules, subject, object, action),
                                     err |-> NilError]]}
          [] model = "abac" ->
                IF "abac" \notin enforcers THEN unavailable
                ELSE {[engine |-> "abac",
                       engineResult |-> res,
                       returned |-> [allowed |-> res.allowed, err |-> EngineError(res.err)]]
                      : res \in ABACEnforceResults(policies, userAttributes, objectAttributes,
                                                   subject, object, action, attributes,
                                                   clock, fail)}
          [] model = "rebac" ->
                IF "rebac" \notin enforcers THEN unavailable
                ELSE {[engine |-> "rebac",
                       engineResult |-> [allowed |-> res.allowed, path |-> res.path],
                       returned |-> [allowed |-> res.allowed, err |-> NilError]]
                      : res \in {r \in Enforce(relationships, subject, object, action) :
                                    ~r.overflow}}
          [] OTHER ->
                {[engine |-> "", engineResult |-> [path |-> ""],
                  returned |-> [allowed |-> FALSE,
                                err |-> Errorf("invalid model specified: " \o model)]]}

DispatcherEnforce(model, subject, object, action, attributes, clock, fail) ==
    /\ \E res \in DispatcherResults(model, subject, object, action, attributes, clock, fail) :
          lastCall' = [op |-> "Enforce", model |-> model, subject |-> subject,
                       object |-> object, action |-> action,
                       rbacDecision |-> RBACEnforce(rbacRules, subject, object, action),
                       engine |-> res.engine, engineResult |-> res.engineResult,
                       returned |-> res.returned]
    /\ UNCHANGED <<aclVars, rbacVars, abacVars, rebacVars, concVars>>

\* The model values of the requests: the four models, none, and two that are
\* no model.
ModelInputs == Models \cup {"", "RBAC", "pbac"}

DispatcherPolicies ==
    {policy \in ValidPolicies :
        policy.id = "p1" /\ policy.priority = 100 /\ policy.effect = "allow"}

\* NewAuthorizationServiceImpl: any of the four enforcers can be nil.
InitDispatcher ==
    /\ aclRules = <<>>
    /\ rbacRules = <<>>
    /\ policyStore = EmptyMap
    /\ policies = EmptyMap
    /\ userAttributes = EmptyMap
    /\ objectAttributes = EmptyMap
    /\ relStore = <<>>
    /\ relationships = EmptyMap
    /\ lastCall = NoCall
    /\ calls = [c \in Callers |-> Idle]
    /\ mu = MuFree
    /\ enforcers \in SUBSET Models

NextDispatcher ==
    \/ \E model \in ModelInputs, fail \in {"none", "user"} :
          DispatcherEnforce(model, "alice", "doc", "read", EmptyMap,
                            CHOOSE clock \in Clocks : TRUE, fail)
    \/ \E m \in enforcers \cap {"acl"} :
          ACLAddPolicy("alice", "doc", "read") \/ ACLRemovePolicy("alice", "doc", "read")
    \/ \E m \in enforcers \cap {"rbac"} :
          RBACAddPolicy("alice", "doc", "read") \/ RBACRemovePolicy("alice", "doc", "read")
    \/ \E m \in enforcers \cap {"abac"} :
          \/ \E policy \in DispatcherPolicies : ABACAddPolicy(policy, TRUE)
          \/ ABACRemovePolicy("p1", NoFailure)
    \/ \E m \in enforcers \cap {"rebac"}, r \in {"owner", "friend"} :
          \/ ReBACAddRelationship("alice", r, "doc", TRUE)
          \/ ReBACRemoveRelationship("alice", r, "doc", TRUE)

SpecDispatcher == InitDispatcher /\ [][NextDispatcher]_vars

DispatcherEnforced == lastCall.op = "Enforce"

\* C17: Enforce with an empty model value routes the request to the RBAC
\* engine and returns the RBAC engine's decision, not an error.
C17_EmptyModelIsRBAC ==
    (DispatcherEnforced /\ lastCall.model = "" /\ "rbac" \in enforcers)
    => /\ lastCall.engine = "rbac"
       /\ lastCall.returned = [allowed |-> lastCall.rbacDecision, err |-> NilError]

\* C18: Enforce with a model value other than acl, rbac, abac or rebac
\* calls no engine and returns allowed = false with an error of kind
\* InvalidInput, which is neither ServiceUnavailable nor an error of the
\* infrastructure.
C18_UnknownModelInvalidInput ==
    (DispatcherEnforced /\ lastCall.model \notin Models \cup {""})
    => /\ lastCall.engine = ""
       /\ lastCall.returned.allowed = FALSE
       /\ "ErrInvalidInput" \in lastCall.returned.err.is
       /\ "ErrServiceUnavailable" \notin lastCall.returned.err.is

\* The path the caller of Enforce is handed: the returned values hold none.
PathHanded == IF "path" \in DOMAIN lastCall.returned THEN lastCall.returned.path ELSE ""

\* C19: for the model rebac Enforce hands the caller the path produced by the
\* ReBAC engine together with the decision; for acl, rbac and abac the path
\* is empty.
C19_PathPropagated ==
    (DispatcherEnforced /\ lastCall.engine # "")
    => PathHanded = (IF lastCall.engine = "rebac" THEN lastCall.engineResult.path ELSE "")


(***************************************************************************)
(* The path finder as an operation of its own, on graphs built by          *)
(* AddRelationship and RemoveRelationship.                                 *)
(***************************************************************************)
ReBACFindRelationshipPath(subject, targetObject, maxDepth) ==
    /\ \E res \in FindRelationshipPath(relationships, subject, targetObject, maxDepth) :
          lastCall' = [op |-> "ReBACFindRelationshipPath", subject |-> subject,
                       targetObject |-> targetObject, maxDepth |-> maxDepth,
                       found |-> res.found, path |-> res.path]
    /\ UNCHANGED <<aclVars, rbacVars, abacVars, rebacVars, concVars>>

PathNodes == {"alice", "bob", "doc"}
PathRelationships == {"friend", "owner"}
DepthInputs == {0, 1, 2}

InitPath == InitEmpty

NextPath ==
    \/ \E s \in {"alice", "bob"}, r \in PathRelationships, o \in {"bob", "doc"},
          repoOk \in BOOLEAN :
          \/ ReBACAddRelationship(s, r, o, repoOk)
          \/ ReBACRemoveRelationship(s, r, o, repoOk)
    \/ \E s \in PathNodes, targetObject \in PathNodes, maxDepth \in DepthInputs :
          ReBACFindRelationshipPath(s, targetObject, maxDepth)

SpecPath == InitPath /\ [][NextPath]_vars

\* The nodes one hop of the search leads to from node.
Hops(cache, node) ==
    UNION {{cache[key][i].Object : i \in 1..Len(cache[key])}
           : key \in ForwardKeysOf(cache, node)}

\* targetObject is reached from node by at most n hops.
RECURSIVE WithinHops(_, _, _, _)
WithinHops(cache, node, targetObject, n) ==
    \/ node = targetObject
    \/ n > 0 /\ \E next \in Hops(cache, node) : WithinHops(cache, next, targetObject, n - 1)

FoundWithDepthZero == lastCall.op = "ReBACFindRelationshipPath" /\ lastCall.maxDepth = 0

RECURSIVE RoutePaths(_, _, _, _, _)
RoutePaths(cache, prefix, node, targetObject, n) ==
    IF n = 0 THEN (IF node = targetObject THEN {prefix} ELSE {})
    ELSE UNION {RoutePaths(cache, PathStep(prefix, edge.Relationship, edge.Object),
                           edge.Object, targetObject, n - 1)
                : edge \in {e \in ForwardEdges(cache) : e.Subject = node}}

\* targetObject is reachable from subject along at most n forward edges.
Reachable(cache, subject, targetObject, n) ==
    \E k \in 0..n : RoutePaths(cache, subject, subject, targetObject, k) # {}

\* The number of edges of a shortest route.
Distance(cache, subject, targetObject, n) ==
    CHOOSE k \in 0..n :
        /\ RoutePaths(cache, subject, subject, targetObject, k) # {}
        /\ \A j \in 0..(k - 1) : RoutePaths(cache, subject, subject, targetObject, j) = {}

FoundWithDepth == lastCall.op = "ReBACFindRelationshipPath" /\ lastCall.maxDepth >= 1

\* C21: for maxDepth >= 1, FindRelationshipPath(s, t, maxDepth) returns
\* found = true iff t is reachable from s along at most maxDepth forward
\* edges (reverse entries are never followed), and the path then is the text
\* of a shortest route: it starts with s, ends with t and has one
\* " -[rel]-> next" hop per edge; a target that needs more hops than maxDepth
\* is not found.
C21_ShortestForwardRoute ==
    FoundWithDepth
    => /\ lastCall.found
          <=> Reachable(relationships, lastCall.subject, lastCall.targetObject,
                        lastCall.maxDepth)
       /\ lastCall.found
          => lastCall.path \in
                RoutePaths(relationships, lastCall.subject, lastCall.subject,
                           lastCall.targetObject,
                           Distance(relationships, lastCall.subject,
                                    lastCall.targetObject, lastCall.maxDepth))
       /\ ~lastCall.found => lastCall.path = ""

C21_Witness ==
    /\ FoundWithDepth
    /\ lastCall.found
    /\ Distance(relationships, lastCall.subject, lastCall.targetObject, lastCall.maxDepth) = 2
    /\ relationships # EmptyMap


(***************************************************************************)
(* Group access: a new engine on a table of member edges and edges from    *)
(* the groups to the object, and Enforce on it.                            *)
(***************************************************************************)
MaxGroupRows == 3

GroupRows ==
    {Relationship("alice", "member", "team"), Relationship("alice", "member", "staff"),
     Relationship("bob", "member", "staff"), Relationship("team", "owner", "doc"),
     Relationship("team", "viewer", "doc"), Relationship("staff", "editor", "doc"),
     Relationship("alice", "viewer", "doc")}

GroupActions == {"read", "edit", "delete"}

\* The tables of n distinct rows, in every insertion order.
RECURSIVE TablesOf(_, _)
TablesOf(rows, n) ==
    IF n = 0 THEN {<<>>}
    ELSE {Append(table, row) : table \in TablesOf(rows, n - 1), row \in rows}

InitGroup ==
    /\ aclRules = <<>>
    /\ rbacRules = <<>>
    /\ policyStore = EmptyMap
    /\ policies = EmptyMap
    /\ userAttributes = EmptyMap
    /\ objectAttributes = EmptyMap
    /\ relStore \in UNION {TablesOf(GroupRows, n) : n \in 0..MaxGroupRows}
    /\ \A i, j \in 1..Len(relStore) : relStore[i] = relStore[j] => i = j
    /\ relationships = loadFromDatabase(relStore)
    /\ lastCall = NoCall
    /\ calls = [c \in Callers |-> Idle]
    /\ mu = MuFree
    /\ enforcers = Models

NextGroup ==
    \E s \in {"alice", "bob"}, a \in GroupActions : ReBACEnforceCall(s, "doc", a)

SpecGroup == InitGroup /\ [][NextGroup]_vars

\* The pairs (g, r) through which the request of lastCall has group access:
\* (subject, member, g) and (g, r, object) are edges and r grants the
\* normalized action.
GroupPairs ==
    {pair \in {<<m.Object, e.Relationship>> :
                  m \in {x \in ForwardEdges(relationships) :
                            x.Subject = lastCall.subject /\ x.Relationship = "member"},
                  e \in {x \in ForwardEdges(relationships) : x.Object = lastCall.object}} :
        /\ Relationship(pair[1], pair[2], lastCall.object) \in ForwardEdges(relationships)
        /\ ListHas(pair[2], Normalized(lastCall.action)) \/ ListHas(pair[2], "admin")}

GroupPath(pair) ==
    PathStep(PathStep(lastCall.subject, "member", pair[1]), pair[2], lastCall.object)

NoDirectGrant ==
    \A e \in ForwardEdges(relationships) :
        (e.Subject = lastCall.subject /\ e.Object = lastCall.object)
        => ~(ListHas(e.Relationship, Normalized(lastCall.action))
             \/ ListHas(e.Relationship, "admin"))

\* The text is a path through a group: "subject -[member]-> g -[r]-> object".
IsGroupPath(path) ==
    \E e \in ForwardEdges(relationships) :
        /\ e.Object = lastCall.object
        /\ path = PathStep(PathStep(lastCall.subject, "member", e.Subject),
                           e.Relationship, lastCall.object)

MaxHierarchyRows == 3

HierarchyRows ==
    {Relationship("alice", "owner", "root"), Relationship("alice", "friend", "root"),
     Relationship("root", "parent", "sub"), Relationship("sub", "parent", "doc"),
     Relationship("root", "parent", "doc"), Relationship("doc", "parent", "root")}

HierarchyObjects == {"root", "sub", "doc"}

InitHierarchy ==
    /\ aclRules = <<>>
    /\ rbacRules = <<>>
    /\ policyStore = EmptyMap
    /\ policies = EmptyMap
    /\ userAttributes = EmptyMap
    /\ objectAttributes = EmptyMap
    /\ relStore \in UNION {TablesOf(HierarchyRows, n) : n \in 0..MaxHierarchyRows}
    /\ \A i, j \in 1..Len(relStore) : relStore[i] = relStore[j] => i = j
    /\ relationships = loadFromDatabase(relStore)
    /\ lastCall = NoCall
    /\ calls = [c \in Callers |-> Idle]
    /\ mu = MuFree
    /\ enforcers = Models

NextHierarchy ==
    \E o \in HierarchyObjects, a \in {"read", "edit"} : ReBACEnforceCall("alice", o, a)

SpecHierarchy == InitHierarchy /\ [][NextHierarchy]_vars

ParentEdges(cache) == {e \in ForwardEdges(cache) : e.Relationship = "parent"}

\* The objects reached from node by one to n parent edges.
RECURSIVE Descendants(_, _, _)
Descendants(cache, node, n) ==
    IF n = 0 THEN {}
    ELSE LET children == {e.Object : e \in {x \in ParentEdges(cache) : x.Subject = node}}
         IN  children \cup UNION {Descendants(cache, child, n - 1) : child \in children}

Acyclic(cache) ==
    \A e \in ParentEdges(cache) :
        e.Subject \notin Descendants(cache, e.Subject, Cardinality(ParentEdges(cache)))

\* C23: hierarchical inheritance: in a graph whose parent edges are acyclic,
\* if (parent_obj, parent, o) is an edge and Enforce(s, parent_obj, a) is
\* allowed, then Enforce(s, o, a) is allowed, for parent chains of any
\* length.
C23_Inheritance ==
    (ReBACEnforced /\ Acyclic(relationships))
    => \A e \in {x \in ParentEdges(relationships) : x.Object = lastCall.object} :
          /\ Decisions(relationships, lastCall.subject, e.Subject, lastCall.action) = {TRUE}
             => lastCall.allowed
          /\ TRUE \in Decisions(relationships, lastCall.subject, e.Subject, lastCall.action)
             => TRUE \in Decisions(relationships, lastCall.subject, lastCall.object,
                                   lastCall.action)

C23_Witness ==
    /\ ReBACEnforced /\ Acyclic(relationships)
    /\ lastCall.object = "doc" /\ lastCall.allowed
    /\ relStore = <<Relationship("alice", "owner", "root"),
                    Relationship("root", "parent", "sub"),
                    Relationship("sub", "parent", "doc")>>


(***************************************************************************)
(* The normalisation of actions on its own: mapActionToPermission applied  *)
(* to an action and then to its own result.  The actions are the names of  *)
(* the table, the permissions, and near misses of both (another case, a    *)
(* letter or a blank before or after).                                     *)
(***************************************************************************)
ActionNames ==
    {"view", "edit", "update", "modify", "remove", "manage", "administer",
     "read", "write", "delete", "admin", "inherit", "read_limited", "View", ""}

ActionInputs ==
    {before \o name \o after :
        before \in {"", " ", "x"}, name \in ActionNames, after \in {"", " ", "s"}}

MapAction(action) ==
    /\ lastCall' = [op |-> "mapActionToPermission", action |-> action,
                    permission |-> mapActionToPermission(action),
                    again |-> mapActionToPermission(mapActionToPermission(action))]
    /\ UNCHANGED <<aclVars, rbacVars, abacVars, rebacVars, concVars>>

InitNormalize == InitEmpty

NextNormalize == \E action \in ActionInputs : MapAction(action)

SpecNormalize == InitNormalize /\ [][NextNormalize]_vars

\* C24: action normalization is idempotent and total: for every action a,
\* normalize(normalize(a)) = normalize(a), with view -> read,
\* edit/update/modify -> write, remove -> delete, manage/administer -> admin
\* and every other string unchanged.
C24_NormalizeIdempotent ==
    lastCall.op = "mapActionToPermission"
    => /\ lastCall.permission = Normalized(lastCall.action)
       /\ lastCall.again = lastCall.permission

C24_Witness ==
    /\ lastCall.op = "mapActionToPermission"
    /\ lastCall.action = "modify"
    /\ lastCall.permission = "write"
    /\ lastCall.again = "write"


(***************************************************************************)
(* Reverse entries: one AddRelationship on the empty engine, with every    *)
(* relationship of the default map, then GetRelationships and Enforce.     *)
(***************************************************************************)
InitReverse == InitEmpty

NextReverse ==
    \/ \E s \in EdgeNodes, r \in DOMAIN permissions, o \in EdgeNodes,
          repoOk \in {ok \in BOOLEAN : relStore = <<>>} :
          ReBACAddRelationship(s, r, o, repoOk)
    \/ ReBACGetRelationships("")
    \/ \E s \in EdgeNodes, o \in EdgeNodes, a \in EdgeActions : ReBACEnforceCall(s, o, a)

SpecReverse == InitReverse /\ [][NextReverse]_vars

\* The graph is the one a single AddRelationship makes of the empty graph.
OneEdgeAdded ==
    /\ Len(relStore) = 1
    /\ relationships = CacheAdd(EmptyMap, relStore[1].Subject, relStore[1].Relationship,
                                relStore[1].Object)

ListsTheEdge ==
    (lastCall.op = "ReBACGetRelationships" /\ lastCall.subject = "")
    => lastCall.result = <<relStore[1]>>

AskedBackwards ==
    /\ ReBACEnforced
    /\ lastCall.subject = relStore[1].Object
    /\ lastCall.object = relStore[1].Subject

AbacStep(op) == lastCall'.op = op

AbacStateUnchanged == policyStore' = policyStore /\ policies' = policies

\* ABAC administrative errors leave state unchanged: AddPolicy with an id
\* already in the cache returns AlreadyExists, UpdatePolicy and RemovePolicy
\* with an unknown id return NotFound, with no repository write and the same
\* cache.
C26_Original ==
    [][ /\ (AbacStep("ABACAddPolicy") /\ lastCall'.id \in DOMAIN policies)
           => (lastCall'.err = "already exists" /\ AbacStateUnchanged)
        /\ (/\ AbacStep("ABACUpdatePolicy") \/ AbacStep("ABACRemovePolicy")
            /\ lastCall'.id \notin DOMAIN policies)
           => (lastCall'.err = "not found" /\ AbacStateUnchanged)
      ]_vars

\* C26: ABAC administrative errors leave state unchanged: AddPolicy with a
\* valid policy whose id is already in the cache returns AlreadyExists,
\* UpdatePolicy with a valid policy and RemovePolicy with an unknown id
\* return NotFound (a policy that fails validation is rejected as invalid
\* before its id is looked up), and in each case no repository write is made
\* and the cached policy map is the same as before the call.
C26_ErrorsLeaveState ==
    [][ /\ (AbacStep("ABACAddPolicy") /\ lastCall'.id \in DOMAIN policies)
           => /\ lastCall'.err = IF lastCall'.valid THEN "already exists"
                                 ELSE "invalid ABAC policy"
              /\ AbacStateUnchanged
        /\ (AbacStep("ABACUpdatePolicy") /\ lastCall'.id \notin DOMAIN policies)
           => /\ lastCall'.err = IF lastCall'.valid THEN "not found"
                                 ELSE "invalid ABAC policy"
              /\ AbacStateUnchanged
        /\ (AbacStep("ABACRemovePolicy") /\ lastCall'.id \notin DOMAIN policies)
           => (lastCall'.err = "not found" /\ AbacStateUnchanged)
      ]_vars

C26_Witness ==
    /\ lastCall.op = "ABACAddPolicy"
    /\ lastCall.err = "already exists"
    /\ lastCall.id \in DOMAIN policies
    /\ policyStore = policies


\* The decisions Enforce gives the request of lastCall when both attribute
\* maps are empty.
DecisionsWithoutAttributes ==
    {DecideInOrder(policies, order, 1,
                   EvaluationContext(EmptyMap, EmptyMap, lastCall.clock, lastCall.reqAttrs,
                                     lastCall.subject, lastCall.object, lastCall.action))
     : order \in SortedOrders(policies)}

\* C27: ABAC Enforce returns an error, and not a plain deny, whenever
\* loading the subject's user attributes or the object's object attributes
\* fails; a successful load that returns no attributes is evaluated as an
\* empty attribute map without error.
C27_LoadFailureIsError ==
    AbacEnforced
    => /\ lastCall.fail # "none" => (lastCall.err # "nil" /\ lastCall.allowed = FALSE)
       /\ lastCall.fail = "none" => lastCall.err = "nil"
       /\ (/\ lastCall.fail = "none"
           /\ GetAttributes(userAttributes, lastCall.subject) = EmptyMap
           /\ GetAttributes(objectAttributes, lastCall.object) = EmptyMap)
          => lastCall.allowed \in DecisionsWithoutAttributes

\* An attribute load failed on a request that the policies allow when the
\* attribute maps are empty.
C27_Witness ==
    /\ AbacEnforced
    /\ lastCall.fail = "object"
    /\ lastCall.err = "failed to get object attributes"
    /\ GetAttributes(userAttributes, lastCall.subject) = EmptyMap
    /\ DecisionsWithoutAttributes = {TRUE}


\* C28: Enforce terminates and returns a decision for every finite
\* relationship graph, including graphs whose parent edges form a cycle: the
\* depth of the hierarchical recursion is bounded.
C28_EnforceReturns ==
    ReBACEnforced => ~lastCall.overflow


\* C29: for a fixed relationship graph and a fixed request, Enforce always
\* returns the same allow/deny decision: the order in which the map is
\* ranged over can change the path that is reported, never the decision.
\* Every decision the call can return on the graph is the one it returned.
C29_DecisionIndependentOfOrder ==
    (ReBACEnforced /\ ~lastCall.overflow)
    => \A res \in Enforce(relationships, lastCall.subject, lastCall.object, lastCall.action) :
          res.overflow \/ res.allowed = lastCall.allowed


\* C30: for a fixed policy set, fixed attributes and a fixed request, Enforce
\* returns the same decision on every call, also when two matching policies
\* have equal priority and opposite effects: every order sortedPolicies can
\* have gives the decision the call returned.
C30_SameDecisionEveryCall ==
    (AbacEnforced /\ lastCall.err = "nil")
    => \A order \in SortedOrders(policies) :
          DecideInOrder(policies, order, 1, AbacLastContext) = lastCall.allowed


(***************************************************************************)
(* Condition composition.  evaluatePolicy is applied to every list of up   *)
(* to three conditions (on the user's dept, the request's location and the *)
(* action) with every logic_op Validate accepts, in every context that     *)
(* makes each condition true or false.                                     *)
(***************************************************************************)
LogicOps == {"", "and", "or"}

ComposeLists ==
    {<<CondUser(a)>> : a \in LogicOps}
    \cup {<<CondUser(a), CondEnv(b)>> : a \in LogicOps, b \in LogicOps}
    \cup {<<CondUser(a), CondEnv(b), CondAction(c)>>
          : a \in LogicOps, b \in LogicOps, c \in LogicOps}

ComposeContexts ==
    {EvaluationContext(userAttrs, EmptyMap, clock, reqAttrs, "alice", "doc", action)
     : userAttrs \in {EmptyMap} \cup UserAttributeInputs, clock \in Clocks,
       reqAttrs \in RequestAttributes, action \in AbacActions}

ComposedPolicy(conds) ==
    [id |-> "p1", name |-> "policy", effect |-> "allow", priority |-> 50,
     conditions |-> conds]

EvaluatePolicyCall(conds, ctx) ==
    /\ lastCall' = [op |-> "evaluatePolicy", conditions |-> conds, ctx |-> ctx,
                    result |-> evaluatePolicy(ComposedPolicy(conds), ctx)]
    /\ UNCHANGED <<aclVars, rbacVars, abacVars, rebacVars, concVars>>

InitCompose == InitEmpty

NextCompose == \E conds \in ComposeLists, ctx \in ComposeContexts : EvaluatePolicyCall(conds, ctx)

SpecCompose == InitCompose /\ [][NextCompose]_vars

\* The operator between c_(i-1) and c_i: the logic_op of the nearest
\* condition before c_i that has one, "and" when there is none.
OperatorBefore(conds, i) ==
    LET named == {j \in 1..(i - 1) : conds[j].logic_op # ""}
    IN  IF named = {} THEN "and"
        ELSE conds[CHOOSE j \in named : \A k \in named : k <= j].logic_op

\* c_1 op_2 c_2 ... op_n c_n, read from left to right.
RECURSIVE LeftToRight(_, _, _)
LeftToRight(conds, ctx, n) ==
    IF n = 1 THEN evaluateCondition(conds[1], ctx)
    ELSE IF OperatorBefore(conds, n) = "and"
    THEN LeftToRight(conds, ctx, n - 1) /\ evaluateCondition(conds[n], ctx)
    ELSE LeftToRight(conds, ctx, n - 1) \/ evaluateCondition(conds[n], ctx)

WithLastLogicOp(conds, logicOp) ==
    [i \in 1..Len(conds) |->
        IF i = Len(conds) THEN [conds[i] EXCEPT !.logic_op = logicOp] ELSE conds[i]]

PolicyEvaluated == lastCall.op = "evaluatePolicy"

\* C31: the operator applied between c_(i-1) and c_i is the logic_op of
\* c_(i-1) when it is non-empty and otherwise the operator last in effect
\* (initially and); the logic_op of the last condition never changes the
\* result; for c1 (logic_op or), c2 (logic_op empty), c3 the policy matches
\* iff c1 or c2 or c3.
C31_Composition ==
    PolicyEvaluated
    => LET conds == lastCall.conditions
           ctx == lastCall.ctx
       IN  /\ lastCall.result = LeftToRight(conds, ctx, Len(conds))
           /\ \A logicOp \in LogicOps :
                 evaluatePolicy(ComposedPolicy(WithLastLogicOp(conds, logicOp)), ctx)
                 = lastCall.result
           /\ (Len(conds) = 3 /\ conds[1].logic_op = "or" /\ conds[2].logic_op = "")
              => lastCall.result = (\/ evaluateCondition(conds[1], ctx)
                                    \/ evaluateCondition(conds[2], ctx)
                                    \/ evaluateCondition(conds[3], ctx))

\* c1 (or), c2 (empty), c3 with only c3 true: the policy matches.
C31_Witness ==
    /\ PolicyEvaluated
    /\ Len(lastCall.conditions) = 3
    /\ lastCall.conditions[1].logic_op = "or"
    /\ lastCall.conditions[2].logic_op = ""
    /\ ~evaluateCondition(lastCall.conditions[1], lastCall.ctx)
    /\ ~evaluateCondition(lastCall.conditions[2], lastCall.ctx)
    /\ evaluateCondition(lastCall.conditions[3], lastCall.ctx)
    /\ lastCall.result = TRUE


(***************************************************************************)
(* The ABAC engine over a repository whose calls can fail at any of their  *)
(* statements, with restarts: one policy id, policies of one or two        *)
(* conditions, and the requests that tell them apart.                      *)
(***************************************************************************)
RepoPolicies ==
    [id : {"p1"}, name : {"policy"}, effect : Effects, priority : {50},
     conditions : {<<CondAction("")>>, <<CondObject("and"), CondAction("")>>}]

UpdateFailures ==
    {NoFailure, FailAt("save", 0), FailAt("delete", 0), FailAt("create", 1),
     FailAt("create", 2)}

RemoveFailures == {NoFailure, FailAt("conditions", 0), FailAt("policy", 0)}

\* The failures tried for an update with the policy: the condition rows of
\* one policy are kept to MaxStoredConditions.
MaxStoredConditions == 3
UpdateFailuresFor(policy) ==
    {failAt \in UpdateFailures :
        \/ failAt.step # "delete"
        \/ policy.id \notin DOMAIN policyStore
        \/ Len(policyStore[policy.id].conditions) + Len(policy.conditions)
              <= MaxStoredConditions}

\* A new engine on the same tables (NewABACEnforcerImpl): LoadPolicies fills
\* the cache from GetAllPolicies, or leaves it empty when that fails, which
\* the constructor only logs.
ABACRestart(loadOk) ==
    /\ policies' = IF loadOk THEN policyStore ELSE EmptyMap
    /\ lastCall' = [op |-> "ABACRestart", loaded |-> loadOk]
    /\ UNCHANGED <<aclVars, rbacVars, rebacVars, policyStore, userAttributes,
                   objectAttributes, concVars>>

InitABACRepo == InitEmpty

NextABACRepo ==
    \/ \E policy \in RepoPolicies :
          \/ \E repoOk \in BOOLEAN : ABACAddPolicy(policy, repoOk)
          \/ \E failAt \in UpdateFailuresFor(policy) : ABACUpdatePolicy(policy, failAt)
    \/ \E failAt \in RemoveFailures : ABACRemovePolicy("p1", failAt)
    \/ \E attrs \in ObjectAttributeInputs : ABACSetObjectAttributes("doc", attrs)
    \/ \E loadOk \in BOOLEAN : ABACRestart(loadOk)
    \/ \E a \in AbacActions, clock \in Clocks :
          ABACEnforceCall("alice", "doc", a, EmptyMap, clock, "none")

SpecABACRepo == InitABACRepo /\ [][NextABACRepo]_vars

\* C33: UpdatePolicy replaces a policy's conditions atomically: when the
\* repository update fails part-way, the stored policy and its conditions are
\* the ones from before the call, so a cache and a store that agreed before
\* the call agree after it.
C33_UpdateAtomic ==
    [][ (AbacStep("ABACUpdatePolicy") /\ lastCall'.err # "nil")
        => /\ policyStore' = policyStore
           /\ (policies = policyStore => policies' = policyStore') ]_vars


(***************************************************************************)
(* The ABAC engine with calls that interleave.  AddPolicy, UpdatePolicy    *)
(* and RemovePolicy validate, take e.mu.Lock(), look the id up in the      *)
(* cache, call the repository, write the cache and unlock on return;       *)
(* Enforce loads the attributes, takes e.mu.RLock(), evaluates the cached  *)
(* policies and unlocks.                                                   *)
(***************************************************************************)
AbacAdminOps == {"ABACAddPolicy", "ABACUpdatePolicy", "ABACRemovePolicy"}

ConcurrentPolicies ==
    [id : {"p1"}, name : {"policy"}, effect : Effects, priority : {50},
     conditions : {<<CondAction("")>>}]

ConcurrentFailures ==
    {NoFailure, FailAt("save", 0), FailAt("delete", 0), FailAt("create", 1),
     FailAt("conditions", 0), FailAt("policy", 0)}

\* The failures tried for the repository call of caller c: as in
\* UpdateFailuresFor, the condition rows of one policy are kept to
\* MaxStoredConditions.
ConcurrentFailuresFor(c) ==
    {failAt \in ConcurrentFailures :
        \/ failAt.step # "delete"
        \/ calls[c].pc # "locked"
        \/ calls[c].policy.id \notin DOMAIN policyStore
        \/ Len(policyStore[calls[c].policy.id].conditions) + 1 <= MaxStoredConditions}

\* AddPolicy or UpdatePolicy up to e.mu.Lock(): Validate.
AbacBegin(c, op, policy) ==
    /\ calls[c] = Idle
    /\ calls' = [calls EXCEPT ![c] =
          IF Validate(policy) # "nil"
          THEN [pc |-> "done", op |-> op, policy |-> policy, err |-> "invalid ABAC policy"]
          ELSE [pc |-> "lock", op |-> op, policy |-> policy]]
    /\ UNCHANGED <<aclVars, rbacVars, abacVars, rebacVars, lastCall, mu, enforcers>>

\* RemovePolicy up to e.mu.Lock().
AbacBeginRemove(c, policyID) ==
    /\ calls[c] = Idle
    /\ calls' = [calls EXCEPT ![c] =
          [pc |-> "lock", op |-> "ABACRemovePolicy", policy |-> [id |-> policyID]]]
    /\ UNCHANGED <<aclVars, rbacVars, abacVars, rebacVars, lastCall, mu, enforcers>>

\* What the repository call of the operation makes of the table.
AbacRepo(op, store, policy, failAt) ==
    IF op = "ABACAddPolicy"
    THEN IF failAt.step # "none" \/ policy.id \in DOMAIN store
         THEN [store |-> store, ok |-> FALSE]
         ELSE [store |-> MapPut(store, policy.id, policy), ok |-> TRUE]
    ELSE IF op = "ABACUpdatePolicy" THEN RepoUpdatePolicy(store, policy, failAt)
    ELSE RepoRemovePolicy(store, policy.id, failAt)

\* The error of the lookup of the id in the cache ("nil": the call goes on).
AbacLookup(op, cache, policy) ==
    IF op = "ABACAddPolicy" THEN (IF policy.id \in DOMAIN cache THEN "already exists" ELSE "nil")
    ELSE (IF policy.id \notin DOMAIN cache THEN "not found" ELSE "nil")

AbacRepoError(op) ==
    IF op = "ABACAddPolicy" THEN "failed to add policy to repository"
    ELSE IF op = "ABACUpdatePolicy" THEN "failed to update policy in repository"
    ELSE "failed to remove policy from repository"

\* The call under the write lock with the cache written before the
\* repository has answered.
AbacRepoCallCacheFirst(c, failAt) ==
    /\ calls[c].pc = "locked"
    /\ calls[c].op \in AbacAdminOps
    /\ LET op == calls[c].op
           policy == calls[c].policy
           repo == AbacRepo(op, policyStore, policy, failAt)
       IN  /\ policyStore' = repo.store
           /\ policies' = IF op = "ABACRemovePolicy" THEN MapDelete(policies, policy.id)
                          ELSE MapPut(policies, policy.id, policy)
           /\ mu' = [mu EXCEPT !.writer = ""]
           /\ calls' = [calls EXCEPT ![c] =
                 [pc |-> "done", op |-> op, policy |-> policy,
                  err |-> IF repo.ok THEN "nil" ELSE AbacRepoError(op)]]
    /\ UNCHANGED <<aclVars, rbacVars, rebacVars, userAttributes, objectAttributes,
                   lastCall, enforcers>>

\* Under the write lock: the lookup of the id in the cache and the
\* repository call.  An error returns (the deferred Unlock runs) with the
\* cache as it was; otherwise the call goes on to the cache.
AbacRepoCall(c, failAt) ==
    /\ calls[c].pc = "locked"
    /\ calls[c].op \in AbacAdminOps
    /\ LET op == calls[c].op
           policy == calls[c].policy
           found == AbacLookup(op, policies, policy)
           repo == AbacRepo(op, policyStore, policy, failAt)
       IN  IF found # "nil"
           THEN /\ calls' = [calls EXCEPT ![c] =
                      [pc |-> "done", op |-> op, policy |-> policy, err |-> found]]
                /\ mu' = [mu EXCEPT !.writer = ""]
                /\ policyStore' = policyStore
           ELSE IF ~repo.ok
           THEN /\ calls' = [calls EXCEPT ![c] =
                      [pc |-> "done", op |-> op, policy |-> policy,
                       err |-> AbacRepoError(op)]]
                /\ mu' = [mu EXCEPT !.writer = ""]
                /\ policyStore' = repo.store
           ELSE /\ calls' = [calls EXCEPT ![c].pc = "stored"]
                /\ mu' = mu
                /\ policyStore' = repo.store
    /\ UNCHANGED <<aclVars, rbacVars, rebacVars, policies, userAttributes, objectAttributes,
                   lastCall, enforcers>>

\* The cache mutation after the repository call, and the deferred Unlock.
AbacCacheWrite(c) ==
    /\ calls[c].pc = "stored"
    /\ policies' = IF calls[c].op = "ABACRemovePolicy"
                   THEN MapDelete(policies, calls[c].policy.id)
                   ELSE MapPut(policies, calls[c].policy.id, calls[c].policy)
    /\ mu' = [mu EXCEPT !.writer = ""]
    /\ calls' = [calls EXCEPT ![c] =
          [pc |-> "done", op |-> calls[c].op, policy |-> calls[c].policy, err |-> "nil"]]
    /\ UNCHANGED <<aclVars, rbacVars, rebacVars, policyStore, userAttributes,
                   objectAttributes, lastCall, enforcers>>

\* Enforce up to e.mu.RLock(): the two attribute loads and the context.
AbacEnforceLoad(c, s, o, a, fail) ==
    /\ calls[c] = Idle
    /\ calls' = [calls EXCEPT ![c] =
          IF fail = "none"
          THEN [pc |-> "rlock", op |-> "ABACEnforce",
                ctx |-> EvaluationContext(GetAttributes(userAttributes, s),
                                          GetAttributes(objectAttributes, o),
                                          CHOOSE clock \in Clocks : TRUE, EmptyMap, s, o, a)]
          ELSE [pc |-> "done", op |-> "ABACEnforce", allowed |-> FALSE,
                err |-> IF fail = "user" THEN "failed to get user attributes"
                        ELSE "failed to get object attributes"]]
    /\ UNCHANGED <<aclVars, rbacVars, abacVars, rebacVars, lastCall, mu, enforcers>>

\* e.mu.RLock() of Enforce.
AbacEnforceRLock(c) ==
    /\ calls[c].pc = "rlock"
    /\ RLockFree
    /\ mu' = [mu EXCEPT !.readers = @ + 1]
    /\ calls' = [calls EXCEPT ![c].pc = "reading"]
    /\ UNCHANGED <<aclVars, rbacVars, abacVars, rebacVars, lastCall, enforcers>>

\* The evaluation of the cached policies under the read lock, and the
\* deferred RUnlock.  seen is the cache the call read.
AbacEnforceEvaluate(c) ==
    /\ calls[c].pc = "reading"
    /\ \E order \in SortedOrders(policies) :
          calls' = [calls EXCEPT ![c] =
             [pc |-> "done", op |-> "ABACEnforce", seen |-> policies, err |-> "nil",
              allowed |-> DecideInOrder(policies, order, 1, calls[c].ctx)]]
    /\ mu' = [mu EXCEPT !.readers = @ - 1]
    /\ UNCHANGED <<aclVars, rbacVars, abacVars, rebacVars, lastCall, enforcers>>

InitABACConcurrent == InitEmpty

NextABACConcurrent ==
    \E c \in Callers :
        \/ \E policy \in ConcurrentPolicies :
              \/ AbacBegin(c, "ABACAddPolicy", policy)
              \/ AbacBegin(c, "ABACUpdatePolicy", policy)
        \/ AbacBeginRemove(c, "p1")
        \/ LockRequest(c)
        \/ LockAcquire(c)
        \/ \E failAt \in ConcurrentFailuresFor(c) : AbacRepoCall(c, failAt)
        \/ AbacCacheWrite(c)
        \/ \E fail \in {"none", "user"} : AbacEnforceLoad(c, "alice", "doc", "read", fail)
        \/ AbacEnforceRLock(c)
        \/ AbacEnforceEvaluate(c)
        \/ Return(c)

SpecABACConcurrent == InitABACConcurrent /\ [][NextABACConcurrent]_vars

\* C32: on a repository failure AddPolicy, UpdatePolicy and RemovePolicy
\* return an error and leave the in-memory policy map exactly as it was; the
\* repository call is made while the engine's write lock is held and before
\* the map is modified (the map changes only in the hands of the lock's
\* holder whose repository call succeeded), so no Enforce reads the map while
\* a call is between its lock and its return.
C32_RepositoryFirstUnderLock ==
    [][ /\ policyStore' # policyStore
           => \E c \in Callers : mu.writer = c /\ calls[c].pc = "locked"
        /\ policies' # policies
           => \E c \in Callers : /\ mu.writer = c /\ calls[c].pc = "stored"
                                 /\ calls'[c].pc = "done" /\ calls'[c].err = "nil"
        /\ \A c \in Callers :
              (/\ calls[c].pc = "locked" /\ calls'[c].pc = "done"
               /\ calls'[c].err # "nil")
              => policies' = policies
        /\ \A c \in Callers :
              (calls[c].pc = "reading" /\ calls'[c].pc = "done")
              => \A d \in Callers : calls[d].pc \notin {"locked", "stored"} ]_vars

\* An UpdatePolicy that the repository failed has returned its error, the
\* cache does not hold its policy, and the other caller's Enforce has read
\* the cache as it is.
C32_Witness ==
    \E c \in Callers :
        /\ calls[c].pc = "done" /\ calls[c].op = "ABACUpdatePolicy"
        /\ calls[c].err = "failed to update policy in repository"
        /\ "p1" \in DOMAIN policies /\ policies["p1"] # calls[c].policy
        /\ calls[Other(c)].pc = "done" /\ calls[Other(c)].op = "ABACEnforce"
        /\ calls[Other(c)].err = "nil" /\ calls[Other(c)].seen = policies


(***************************************************************************)
(* Validation.  AddPolicy and UpdatePolicy are called with two well-formed *)
(* policies per id and with one policy for every rule Validate has.        *)
(***************************************************************************)
WellFormedPolicies ==
    [id : PolicyIds, name : {"policy"}, effect : Effects, priority : Priorities,
     conditions : {<<CondAction("")>>}]

Malformed(id, name, effect, cond) ==
    [id |-> id, name |-> name, effect |-> effect, priority |-> 50, conditions |-> <<cond>>]

MalformedPolicies ==
    { Malformed("", "policy", "allow", CondAction("")),
      Malformed("p1", "", "allow", CondAction("")),
      Malformed("p1", "policy", "audit", CondAction("")),
      Malformed("p1", "policy", "", CondAction("")),
      Malformed("p1", "policy", "allow", Cond("", "action", "eq", "read", "")),
      Malformed("p1", "policy", "allow", Cond("action", "", "eq", "read", "")),
      Malformed("p1", "policy", "allow", Cond("action", "action", "", "read", "")),
      Malformed("p1", "policy", "allow", Cond("action", "action", "eq", "", "")),
      Malformed("p1", "policy", "deny", Cond("action", "action", "eq", "read", "xor")) }

InitABACValidate == InitEmpty

NextABACValidate ==
    \/ \E policy \in WellFormedPolicies \cup MalformedPolicies :
          \/ \E repoOk \in BOOLEAN : ABACAddPolicy(policy, repoOk)
          \/ \E failAt \in {NoFailure, FailAt("save", 0)} : ABACUpdatePolicy(policy, failAt)
    \/ \E policyID \in PolicyIds \cup {""}, failAt \in {NoFailure, FailAt("conditions", 0)} :
          ABACRemovePolicy(policyID, failAt)

SpecABACValidate == InitABACValidate /\ [][NextABACValidate]_vars

\* The rules of the claim for a policy.
WellFormed(policy) ==
    /\ policy.id # ""
    /\ policy.effect \in {"allow", "deny"}
    /\ \A i \in 1..Len(policy.conditions) :
          LET cond == policy.conditions[i]
          IN  /\ cond.type # "" /\ cond.field # "" /\ cond.operator # "" /\ cond.value # ""
              /\ cond.logic_op \in {"and", "or", ""}

\* C34: after any sequence of AddPolicy, UpdatePolicy and RemovePolicy on an
\* initially empty engine every cached policy is stored under its own id, has
\* a non-empty id, effect allow or deny, and only conditions with non-empty
\* type, field, operator and value and logic_op and, or or empty; a call
\* with a policy that breaks one of these rules is rejected before any
\* repository write (no such policy reaches the table, and the call that
\* Validate turns down returns the error with table and cache as they were).
C34_CachedPoliciesWellFormed ==
    [][ /\ \A id \in DOMAIN policies' : policies'[id].id = id /\ WellFormed(policies'[id])
        /\ \A id \in DOMAIN policyStore' : WellFormed(policyStore'[id])
        /\ ((AbacStep("ABACAddPolicy") \/ AbacStep("ABACUpdatePolicy")) /\ ~lastCall'.valid)
           => (lastCall'.err = "invalid ABAC policy" /\ AbacStateUnchanged) ]_vars

\* A cached policy, after a call with a malformed policy was turned down.
C34_Witness ==
    /\ lastCall.op \in {"ABACAddPolicy", "ABACUpdatePolicy"}
    /\ ~lastCall.valid /\ lastCall.err = "invalid ABAC policy"
    /\ DOMAIN policies = PolicyIds


(***************************************************************************)
(* The environment attributes.  An engine holding one policy, allow when   *)
(* the environment attribute time is "14", is asked with every request     *)
(* attribute map over time, hour, day, date and location, at two clock     *)
(* readings.                                                               *)
(***************************************************************************)
EnvClocks ==
    {[time |-> "9", date |-> "2025-01-06", day |-> "Monday"],
     [time |-> "14", date |-> "2025-01-07", day |-> "Tuesday"]}

EnvRequestValues ==
    [time |-> {"10", "14"}, hour |-> {"14", "22"}, day |-> {"Sunday"},
     date |-> {"2030-01-01"}, location |-> {"office"}]

EnvRequestAttributes ==
    UNION {{reqAttrs \in [keys -> UNION {EnvRequestValues[k] : k \in DOMAIN EnvRequestValues}] :
               \A k \in keys : reqAttrs[k] \in EnvRequestValues[k]}
           : keys \in SUBSET DOMAIN EnvRequestValues}

EnvPolicy ==
    [id |-> "p1", name |-> "policy", effect |-> "allow", priority |-> 50,
     conditions |-> <<Cond("environment", "time", "eq", "14", "")>>]

\* An engine started on a table that holds the policy.
InitEnvironment ==
    /\ aclRules = <<>>
    /\ rbacRules = <<>>
    /\ policyStore = [p1 |-> EnvPolicy]
    /\ policies = policyStore
    /\ userAttributes = EmptyMap
    /\ objectAttributes = EmptyMap
    /\ relStore = <<>>
    /\ relationships = EmptyMap
    /\ lastCall = NoCall
    /\ calls = [c \in Callers |-> Idle]
    /\ mu = MuFree
    /\ enforcers = Models

NextEnvironment ==
    \E reqAttrs \in EnvRequestAttributes, clock \in EnvClocks :
        ABACEnforceCall("alice", "doc", "read", reqAttrs, clock, "none")

SpecEnvironment == InitEnvironment /\ [][NextEnvironment]_vars

\* The environment attribute k as the claim gives it.
ClaimedEnvironment(clock, reqAttrs) ==
    [k \in DOMAIN clock \cup DOMAIN reqAttrs |->
        IF k = "time" /\ "hour" \in DOMAIN reqAttrs THEN reqAttrs["hour"]
        ELSE IF k \in DOMAIN reqAttrs THEN reqAttrs[k]
        ELSE clock[k]]

\* C35: in Enforce the environment attributes are the clock-derived time,
\* date and day overlaid by the request attributes (a request attribute of
\* the same name wins), and reqAttrs["hour"], when present, determines the
\* environment attribute time even if reqAttrs["time"] is also supplied; the
\* decision of the policy on time follows.
C35_EnvironmentOverlay ==
    AbacEnforced
    => /\ AbacLastContext.EnvironmentAttributes
          = ClaimedEnvironment(lastCall.clock, lastCall.reqAttrs)
       /\ lastCall.allowed
          = (ClaimedEnvironment(lastCall.clock, lastCall.reqAttrs)["time"] = "14")

\* The request carries hour 14 and time 10 at clock time 9: allowed.
C35_Witness ==
    /\ AbacEnforced
    /\ lastCall.clock.time = "9"
    /\ DOMAIN lastCall.reqAttrs = {"hour", "time", "day"}
    /\ lastCall.reqAttrs["hour"] = "14" /\ lastCall.reqAttrs["time"] = "10"
    /\ AbacLastContext.EnvironmentAttributes["day"] = "Sunday"
    /\ lastCall.allowed


\* An engine started on a relationship table of up to maxRows distinct rows
\* of rows, everything else empty.
InitTable(rows, maxRows) ==
    /\ aclRules = <<>>
    /\ rbacRules = <<>>
    /\ policyStore = EmptyMap
    /\ policies = EmptyMap
    /\ userAttributes = EmptyMap
    /\ objectAttributes = EmptyMap
    /\ relStore \in UNION {TablesOf(rows, n) : n \in 0..maxRows}
    /\ \A i, j \in 1..Len(relStore) : relStore[i] = relStore[j] => i = j
    /\ relationships = loadFromDatabase(relStore)
    /\ lastCall = NoCall
    /\ calls = [c \in Callers |-> Idle]
    /\ mu = MuFree
    /\ enforcers = Models

(***************************************************************************)
(* The social step on names that hold the word friend: a group called      *)
(* friends_group, a relationship called friend_request, next to a friend   *)
(* edge and to edges without the word.                                     *)
(***************************************************************************)
MaxSocialRows == 2

SocialRows ==
    {Relationship("alice", "member", "friends_group"),
     Relationship("alice", "friend_request", "bob"),
     Relationship("alice", "friend", "bob"),
     Relationship("alice", "member", "team"),
     Relationship("bob", "colleague", "carol")}

SocialObjects == {"friends_group", "bob", "team", "carol"}

InitSocial == InitTable(SocialRows, MaxSocialRows)

NextSocial ==
    \E o \in SocialObjects, a \in {"read", "edit"} : ReBACEnforceCall("alice", o, a)

SpecSocial == InitSocial /\ [][NextSocial]_vars

\* C36: the social step allows only when the found path contains an edge
\* whose relationship name is exactly friend: an Enforce that no direct,
\* group or hierarchical step decides and that allows has a path with an
\* edge -[friend]->.
C36_ExactFriendEdge ==
    (/\ ReBACEnforced /\ ~lastCall.overflow /\ lastCall.allowed
     /\ ReachesFindRelationshipPath(relationships, lastCall.subject, lastCall.object,
                                    lastCall.action))
    => Contains(lastCall.path, " -[friend]-> ")


(***************************************************************************)
(* Identifiers as opaque strings: owner edges are added for a plain        *)
(* subject and for one that holds a colon, and each is asked for.          *)
(***************************************************************************)
OpaqueSubjects == {"alice", "user:alice"}
OpaqueObjects == {"doc", "bob"}

InitOpaque == InitEmpty

NextOpaque ==
    \/ \E s \in OpaqueSubjects, o \in OpaqueObjects, repoOk \in BOOLEAN :
          ReBACAddRelationship(s, "owner", o, repoOk)
    \/ \E s \in OpaqueSubjects, o \in OpaqueObjects : ReBACEnforceCall(s, o, "read")
    \/ \E s \in OpaqueSubjects : ReBACGetRelationships(s)
    \/ \E s \in OpaqueSubjects, o \in OpaqueObjects :
          ReBACFindRelationshipPath(s, o, DefaultMaxDepth)

SpecOpaque == InitOpaque /\ [][NextOpaque]_vars

\* The owner edge (s, owner, o) has been added.
OwnerAdded(s, o) == \E i \in 1..Len(relStore) : relStore[i] = Relationship(s, "owner", o)

\* C37: principal identifiers are opaque strings: after
\* AddRelationship(s, owner, o), Enforce(s, o, read) is allowed,
\* GetRelationships(s) lists the edge and FindRelationshipPath(s, o, 5)
\* finds it, for every subject string s, also one that contains ':'.
C37_OpaqueIdentifiers ==
    /\ (ReBACEnforced /\ OwnerAdded(lastCall.subject, lastCall.object))
       => lastCall.allowed
    /\ lastCall.op = "ReBACGetRelationships"
       => \A i \in 1..Len(relStore) :
             relStore[i].Subject = lastCall.subject
             => \E j \in 1..Len(lastCall.result) : lastCall.result[j] = relStore[i]
    /\ (/\ lastCall.op = "ReBACFindRelationshipPath"
        /\ OwnerAdded(lastCall.subject, lastCall.targetObject))
       => lastCall.found


\* No cached policy has a condition of type environment.
NoEnvironmentCondition ==
    \A id \in DOMAIN policies :
        \A i \in 1..Len(policies[id].conditions) :
            policies[id].conditions[i].type # "environment"

\* C38: request attributes influence only environment-typed conditions: for
\* a fixed attribute store and a policy set in which no condition has type
\* environment, two Enforce calls with the same (subject, object, action) and
\* different request attributes return the same decision.  Whatever a call
\* with other request attributes can return is what this call returned.
C38_RequestAttributesInert ==
    (AbacEnforced /\ lastCall.err = "nil" /\ NoEnvironmentCondition)
    => \A reqAttrs \in RequestAttributes :
          \A res \in ABACEnforceResults(policies, userAttributes, objectAttributes,
                                        lastCall.subject, lastCall.object, lastCall.action,
                                        reqAttrs, lastCall.clock, "none") :
             res.allowed = lastCall.allowed


\* C39: every permission listed in the default permission map is
\* obtainable: for every relationship r of the map and every permission p in
\* r's list other than inherit, a subject whose only edge is the direct edge
\* (s, r, o) is allowed by Enforce when it requests action p on o.
C39_ListedPermissionObtainable ==
    (/\ ReBACEnforced
     /\ Len(relStore) = 1
     /\ relStore[1].Subject = lastCall.subject
     /\ relStore[1].Object = lastCall.object
     /\ relStore[1].Relationship \in DOMAIN permissions
     /\ lastCall.action # "inherit"
     /\ \E i \in 1..Len(permissions[relStore[1].Relationship]) :
           permissions[relStore[1].Relationship][i] = lastCall.action)
    => lastCall.allowed

====
